---- MODULE Spec2Model ----
(***************************************************************************)
(* Grandad's railway: the multi-point controller sketches and the crossing *)
(* lights.                                                                 *)
(*                                                                         *)
(* Two sketches of the repository drive an array of point controllers      *)
(* from one non-blocking loop():                                           *)
(*   - "points"  : src/unnamed/part_003, lines 203-461 (struct             *)
(*                 PointController, applyPointLogic only on an accepted    *)
(*                 change);                                                *)
(*   - "ino"     : src/railway_crossover_control.ino, lines 1-278 (struct  *)
(*                 PointControl, applyPointLogic on every sampled tick).   *)
(* Each C function is an operator from the struct and the hardware (relay  *)
(* pins, Serial) to the new struct and hardware.  updatePoint touches only *)
(* its own struct, its own two relay pins and Serial, so a run follows the *)
(* controllers of the set `followed`, drawn from the entries of the array. *)
(*                                                                         *)
(* A third sketch, "crossing" (src/unnamed/part_000), is the crossing-     *)
(* light controller: two ACS712 occupancy sensors and a pair of flashing   *)
(* lamps.  It is modelled the same way, its global variables being         *)
(* variables of the module.                                                *)
(*                                                                         *)
(* Two more sketches drive one set of points each with a plain debounce:   *)
(*   - "binary"   : src/railway_crossover_control.ino, lines 280-508 (a    *)
(*                  digital points sensor, one of two approaches powered); *)
(*   - "coacting" : src/unnamed/part_003, lines 1-202 (an analog sensor,   *)
(*                  both approaches powered or both cut).                  *)
(* Their global variables and static locals are the record `globals`.      *)
(***************************************************************************)
EXTENDS Integers, Sequences, FiniteSets, TLC

\* ------------------------------------------------------------------------
\* Program constants
\* ------------------------------------------------------------------------

RELAY_LINE1_RIGHT_TO_LEFT == 3
RELAY_LINE2_LEFT_TO_RIGHT == 4
RELAY_Y1_LINE1 == 5
RELAY_Y1_LINE2 == 6
RELAY_Y2_LINE1 == 7
RELAY_Y2_LINE2 == 8

CROSSOVER_ACTIVE == 0
CROSSOVER_INACTIVE == 1

TRACK_POWER_ON == 1
TRACK_POWER_OFF == 0

\* a relay pin before setup() makes it an output and writes it
NOT_DRIVEN == -1

ROUTE_LINE1_TO_LINE3 == 0
ROUTE_LINE2_TO_LINE3 == 1

ANALOG_THRESHOLD == 410
ANALOG_HYSTERESIS == 20

DEBOUNCE_DELAY == 50
SENSOR_SAMPLE_INTERVAL == 10

ADC_MAX == 1023

POINT_COUNT == 3

POINT_COACTING == "POINT_COACTING"
POINT_Y_BRANCH == "POINT_Y_BRANCH"

\* ------------------------------------------------------------------------
\* Bounds of the model
\* ------------------------------------------------------------------------

\* millis() is an unsigned long: its arithmetic is modulo 2^32.  The model
\* keeps the modular arithmetic with a smaller modulus.
ULONG_MODULUS == 128

\* loop() is followed up to this time (ms since reset).
MaxTime == 120

\* Time that passes before initializePoint reads millis() (ms).
SetupDelays == {0, 10}

\* Time between the millis() readings of two successive loop() calls (ms).
TickSteps == {5, 10, 25}

\* loop() is followed up to this time when two controllers are followed.
MaxTimePair == 60

\* A run across the overflow of millis() is followed this long after the
\* overflow.
MaxTimePastOverflow == 60

\* threshold and hysteresis are int fields: configurations are drawn up to
\* this far outside the range 0..1023 of analogRead (and below 0 for the
\* hysteresis), and with a hysteresis up to MaxHysteresis.
MaxBeyond == 3
MaxHysteresis == 25

\* ------------------------------------------------------------------------
\* Arduino primitives
\* ------------------------------------------------------------------------

\* constrain(x, a, b) of Arduino.h
constrain(x, a, b) == IF x < a THEN a ELSE IF x > b THEN b ELSE x

\* unsigned long subtraction
USub(a, b) == (a - b) % ULONG_MODULUS

\* faulty variant: the pin of the North junction's Line 1 relay also drives
\* the South junction's
digitalWriteCoupled(io, p, level) ==
  [io EXCEPT !.pin = IF p = 5 THEN [@ EXCEPT ![5] = level, ![7] = level]
                     ELSE [@ EXCEPT ![p] = level],
             !.writes = Append(@, <<p, level>>)]

\* The hardware record io = [pin, serial, writes, reads]: the level of each
\* relay pin, the notifications printed on Serial, the digitalWrite calls made
\* in the current call (pin and level, in order) and the number of its
\* analogRead calls.
digitalWrite(io, p, level) ==
  [io EXCEPT !.pin = [@ EXCEPT ![p] = level], !.writes = Append(@, <<p, level>>)]

\* analogRead: the value read is the caller's analogValue
analogRead(io) == [io EXCEPT !.reads = @ + 1]

\* one change notification on Serial (the two printed lines of applyPointLogic)
SerialReport(io, lbl, st, analog, thr) ==
  [io EXCEPT !.serial =
     Append(@, [label |-> lbl, state |-> st, analog |-> analog, threshold |-> thr])]

\* ------------------------------------------------------------------------
\* Sketch "points" (src/unnamed/part_003)
\* ------------------------------------------------------------------------

pointControllers ==
  <<
    [ label |-> "Coacting Crossover",
      type |-> POINT_COACTING,
      relays |-> [line1 |-> RELAY_LINE1_RIGHT_TO_LEFT, line2 |-> RELAY_LINE2_LEFT_TO_RIGHT],
      sensor |-> [pin |-> "A2", threshold |-> ANALOG_THRESHOLD,
                  hysteresis |-> ANALOG_HYSTERESIS,
                  lastAnalog |-> 0, lastSample |-> 0, lastChanged |-> 0],
      currentState |-> CROSSOVER_ACTIVE,
      instantaneousState |-> CROSSOVER_ACTIVE,
      reportedState |-> -1 ],
    [ label |-> "North Y Junction",
      type |-> POINT_Y_BRANCH,
      relays |-> [line1 |-> RELAY_Y1_LINE1, line2 |-> RELAY_Y1_LINE2],
      sensor |-> [pin |-> "A3", threshold |-> ANALOG_THRESHOLD,
                  hysteresis |-> ANALOG_HYSTERESIS,
                  lastAnalog |-> 0, lastSample |-> 0, lastChanged |-> 0],
      currentState |-> ROUTE_LINE1_TO_LINE3,
      instantaneousState |-> ROUTE_LINE1_TO_LINE3,
      reportedState |-> -1 ],
    [ label |-> "South Y Junction",
      type |-> POINT_Y_BRANCH,
      relays |-> [line1 |-> RELAY_Y2_LINE1, line2 |-> RELAY_Y2_LINE2],
      sensor |-> [pin |-> "A4", threshold |-> ANALOG_THRESHOLD,
                  hysteresis |-> ANALOG_HYSTERESIS,
                  lastAnalog |-> 0, lastSample |-> 0, lastChanged |-> 0],
      currentState |-> ROUTE_LINE1_TO_LINE3,
      instantaneousState |-> ROUTE_LINE1_TO_LINE3,
      reportedState |-> -1 ]
  >>

\* faulty variant: the lower bound is not clamped at 0
lowerBoundOfNotClamped(threshold, hysteresis) ==
  IF threshold - hysteresis > ADC_MAX THEN ADC_MAX ELSE threshold - hysteresis

lowerBoundOf(threshold, hysteresis) == constrain(threshold - hysteresis, 0, ADC_MAX)

upperBoundOf(threshold, hysteresis) == constrain(threshold + hysteresis, 0, ADC_MAX)

\* faulty variant: the comparisons with the bounds are not strict
interpretBodyNotStrict(type, threshold, hysteresis, analogValue, priorState) ==
  LET lowerBound == lowerBoundOf(threshold, hysteresis)
      upperBound == upperBoundOf(threshold, hysteresis)
  IN  IF type = POINT_COACTING
        THEN IF priorState = CROSSOVER_ACTIVE
               THEN (IF analogValue >= upperBound THEN CROSSOVER_INACTIVE ELSE CROSSOVER_ACTIVE)
               ELSE (IF analogValue <= lowerBound THEN CROSSOVER_ACTIVE ELSE CROSSOVER_INACTIVE)
        ELSE IF priorState = ROUTE_LINE1_TO_LINE3
               THEN (IF analogValue >= upperBound THEN ROUTE_LINE2_TO_LINE3 ELSE ROUTE_LINE1_TO_LINE3)
               ELSE (IF analogValue <= lowerBound THEN ROUTE_LINE1_TO_LINE3 ELSE ROUTE_LINE2_TO_LINE3)

\* faulty variant: a raw value equal to the upper bound already counts as
\* above it
interpretBodyUpperInclusive(type, threshold, hysteresis, analogValue, priorState) ==
  LET lowerBound == lowerBoundOf(threshold, hysteresis)
      upperBound == upperBoundOf(threshold, hysteresis)
  IN  IF type = POINT_COACTING
        THEN IF priorState = CROSSOVER_ACTIVE
               THEN (IF analogValue >= upperBound THEN CROSSOVER_INACTIVE ELSE CROSSOVER_ACTIVE)
               ELSE (IF analogValue < lowerBound THEN CROSSOVER_ACTIVE ELSE CROSSOVER_INACTIVE)
        ELSE IF priorState = ROUTE_LINE1_TO_LINE3
               THEN (IF analogValue >= upperBound THEN ROUTE_LINE2_TO_LINE3 ELSE ROUTE_LINE1_TO_LINE3)
               ELSE (IF analogValue < lowerBound THEN ROUTE_LINE1_TO_LINE3 ELSE ROUTE_LINE2_TO_LINE3)

\* the body of interpretState, shared by both sketches (the two copies differ
\* only in the names of the struct fields)
interpretBody(type, threshold, hysteresis, analogValue, priorState) ==
  LET lowerBound == lowerBoundOf(threshold, hysteresis)
      upperBound == upperBoundOf(threshold, hysteresis)
  IN  IF type = POINT_COACTING
        THEN IF priorState = CROSSOVER_ACTIVE
               THEN (IF analogValue > upperBound THEN CROSSOVER_INACTIVE ELSE CROSSOVER_ACTIVE)
               ELSE (IF analogValue < lowerBound THEN CROSSOVER_ACTIVE ELSE CROSSOVER_INACTIVE)
        ELSE IF priorState = ROUTE_LINE1_TO_LINE3
               THEN (IF analogValue > upperBound THEN ROUTE_LINE2_TO_LINE3 ELSE ROUTE_LINE1_TO_LINE3)
               ELSE (IF analogValue < lowerBound THEN ROUTE_LINE1_TO_LINE3 ELSE ROUTE_LINE2_TO_LINE3)

interpretState(point, analogValue, priorState) ==
  interpretBody(point.type, point.sensor.threshold, point.sensor.hysteresis,
                analogValue, priorState)

\* faulty variant: routing Line 2 powers its relay without de-powering Line 1
applyRelaysNoDepower(type, currentState, line1, line2, io) ==
  IF type = POINT_COACTING
    THEN IF currentState = CROSSOVER_ACTIVE
           THEN digitalWrite(digitalWrite(io, line1, TRACK_POWER_OFF), line2, TRACK_POWER_OFF)
           ELSE digitalWrite(digitalWrite(io, line1, TRACK_POWER_ON), line2, TRACK_POWER_ON)
    ELSE IF currentState = ROUTE_LINE1_TO_LINE3
           THEN digitalWrite(digitalWrite(io, line1, TRACK_POWER_ON), line2, TRACK_POWER_OFF)
           ELSE digitalWrite(io, line2, TRACK_POWER_ON)

\* faulty variant: freeing the crossover restores power to Line 1 only
applyRelaysOneFreed(type, currentState, line1, line2, io) ==
  IF type = POINT_COACTING
    THEN IF currentState = CROSSOVER_ACTIVE
           THEN digitalWrite(digitalWrite(io, line1, TRACK_POWER_OFF), line2, TRACK_POWER_OFF)
           ELSE digitalWrite(digitalWrite(io, line1, TRACK_POWER_ON), line2, TRACK_POWER_OFF)
    ELSE IF currentState = ROUTE_LINE1_TO_LINE3
           THEN digitalWrite(digitalWrite(io, line1, TRACK_POWER_ON), line2, TRACK_POWER_OFF)
           ELSE digitalWrite(digitalWrite(io, line1, TRACK_POWER_OFF), line2, TRACK_POWER_ON)

\* the relay writes of applyPointLogic, shared by both sketches
\* faulty variant: a Y junction drives RELAY_Y1_LINE1 whatever its own
\* Line 1 relay is
applyRelaysFixedPin(type, currentState, line1, line2, io) ==
  IF type = POINT_COACTING
    THEN IF currentState = CROSSOVER_ACTIVE
           THEN digitalWrite(digitalWrite(io, line1, TRACK_POWER_OFF), line2, TRACK_POWER_OFF)
           ELSE digitalWrite(digitalWrite(io, line1, TRACK_POWER_ON), line2, TRACK_POWER_ON)
    ELSE IF currentState = ROUTE_LINE1_TO_LINE3
           THEN digitalWrite(digitalWrite(io, RELAY_Y1_LINE1, TRACK_POWER_ON), line2, TRACK_POWER_OFF)
           ELSE digitalWrite(digitalWrite(io, RELAY_Y1_LINE1, TRACK_POWER_OFF), line2, TRACK_POWER_ON)

\* faulty variant: routing Line 2 powers its relay before de-powering Line 1
applyRelaysMakeFirst(type, currentState, line1, line2, io) ==
  IF type = POINT_COACTING
    THEN IF currentState = CROSSOVER_ACTIVE
           THEN digitalWrite(digitalWrite(io, line1, TRACK_POWER_OFF), line2, TRACK_POWER_OFF)
           ELSE digitalWrite(digitalWrite(io, line1, TRACK_POWER_ON), line2, TRACK_POWER_ON)
    ELSE IF currentState = ROUTE_LINE1_TO_LINE3
           THEN digitalWrite(digitalWrite(io, line1, TRACK_POWER_ON), line2, TRACK_POWER_OFF)
           ELSE digitalWrite(digitalWrite(io, line2, TRACK_POWER_ON), line1, TRACK_POWER_OFF)

applyRelays(type, currentState, line1, line2, io) ==
  IF type = POINT_COACTING
    THEN IF currentState = CROSSOVER_ACTIVE
           THEN digitalWrite(digitalWrite(io, line1, TRACK_POWER_OFF), line2, TRACK_POWER_OFF)
           ELSE digitalWrite(digitalWrite(io, line1, TRACK_POWER_ON), line2, TRACK_POWER_ON)
    ELSE IF currentState = ROUTE_LINE1_TO_LINE3
           THEN digitalWrite(digitalWrite(io, line1, TRACK_POWER_ON), line2, TRACK_POWER_OFF)
           ELSE digitalWrite(digitalWrite(io, line1, TRACK_POWER_OFF), line2, TRACK_POWER_ON)

\* faulty variant: the notification is printed, the reported state not recorded
applyPointLogicForgetsReport(point, io) ==
  LET io1 == applyRelays(point.type, point.currentState,
                         point.relays.line1, point.relays.line2, io)
  IN  IF point.reportedState # point.currentState
        THEN [point |-> point,
              io |-> SerialReport(io1, point.label, point.currentState,
                                  point.sensor.lastAnalog, point.sensor.threshold)]
        ELSE [point |-> point, io |-> io1]

applyPointLogic(point, io) ==
  LET io1 == applyRelays(point.type, point.currentState,
                         point.relays.line1, point.relays.line2, io)
  IN  IF point.reportedState # point.currentState
        THEN [point |-> [point EXCEPT !.reportedState = point.currentState],
              io |-> SerialReport(io1, point.label, point.currentState,
                                  point.sensor.lastAnalog, point.sensor.threshold)]
        ELSE [point |-> point, io |-> io1]

\* faulty variant: lastSample is the time of the read, not backdated
initializePointNotBackdated(point, io, now, analogValue) ==
  LET p1 == [point EXCEPT !.sensor.lastSample = now,
                          !.sensor.lastChanged = now,
                          !.sensor.lastAnalog = analogValue]
      st == interpretState(p1, analogValue, p1.currentState)
      p2 == [p1 EXCEPT !.currentState = st,
                       !.instantaneousState = st,
                       !.reportedState = -1]
  IN  applyPointLogic(p2, analogRead(io))

\* initializePoint; now is the value millis() returns, analogValue the value
\* analogRead returns
initializePoint(point, io, now, analogValue) ==
  LET p1 == [point EXCEPT !.sensor.lastSample = USub(now, SENSOR_SAMPLE_INTERVAL),
                          !.sensor.lastChanged = now,
                          !.sensor.lastAnalog = analogValue]
      st == interpretState(p1, analogValue, p1.currentState)
      p2 == [p1 EXCEPT !.currentState = st,
                       !.instantaneousState = st,
                       !.reportedState = -1]
  IN  applyPointLogic(p2, analogRead(io))

\* faulty variant: a flip of the instantaneous state does not restart the
\* debounce time
updatePointNoRestart(point, io, now, analogValue) ==
  IF USub(now, point.sensor.lastSample) < SENSOR_SAMPLE_INTERVAL
    THEN [point |-> point, io |-> io]
    ELSE
      LET p1 == [point EXCEPT !.sensor.lastSample = now]
          io1 == analogRead(io)
          reading == interpretState(p1, analogValue, p1.currentState)
          p2 == IF reading # p1.instantaneousState
                  THEN [p1 EXCEPT !.instantaneousState = reading]
                  ELSE p1
      IN  IF USub(now, p2.sensor.lastChanged) >= DEBOUNCE_DELAY
             /\ reading # p2.currentState
            THEN applyPointLogic([p2 EXCEPT !.currentState = reading,
                                            !.sensor.lastAnalog = analogValue,
                                            !.reportedState = -1], io1)
            ELSE [point |-> p2, io |-> io1]

\* faulty variant: the candidate must be older than DEBOUNCE_DELAY, not at
\* least as old
updatePointStrictDelay(point, io, now, analogValue) ==
  IF USub(now, point.sensor.lastSample) < SENSOR_SAMPLE_INTERVAL
    THEN [point |-> point, io |-> io]
    ELSE
      LET p1 == [point EXCEPT !.sensor.lastSample = now]
          io1 == analogRead(io)
          reading == interpretState(p1, analogValue, p1.currentState)
          p2 == IF reading # p1.instantaneousState
                  THEN [p1 EXCEPT !.instantaneousState = reading,
                                  !.sensor.lastChanged = now]
                  ELSE p1
      IN  IF USub(now, p2.sensor.lastChanged) > DEBOUNCE_DELAY
             /\ reading # p2.currentState
            THEN applyPointLogic([p2 EXCEPT !.currentState = reading,
                                            !.sensor.lastAnalog = analogValue,
                                            !.reportedState = -1], io1)
            ELSE [point |-> p2, io |-> io1]

\* faulty variant: the relay mapping is applied on every sampled call
updatePointApplyAlways(point, io, now, analogValue) ==
  IF USub(now, point.sensor.lastSample) < SENSOR_SAMPLE_INTERVAL
    THEN [point |-> point, io |-> io]
    ELSE
      LET p1 == [point EXCEPT !.sensor.lastSample = now]
          io1 == analogRead(io)
          reading == interpretState(p1, analogValue, p1.currentState)
          p2 == IF reading # p1.instantaneousState
                  THEN [p1 EXCEPT !.instantaneousState = reading,
                                  !.sensor.lastChanged = now]
                  ELSE p1
      IN  IF USub(now, p2.sensor.lastChanged) >= DEBOUNCE_DELAY
             /\ reading # p2.currentState
            THEN applyPointLogic([p2 EXCEPT !.currentState = reading,
                                            !.sensor.lastAnalog = analogValue,
                                            !.reportedState = -1], io1)
            ELSE applyPointLogic(p2, io1)

\* faulty variant: the debounce test compares the timestamps directly
updatePointDirectCompare(point, io, now, analogValue) ==
  IF USub(now, point.sensor.lastSample) < SENSOR_SAMPLE_INTERVAL
    THEN [point |-> point, io |-> io]
    ELSE
      LET p1 == [point EXCEPT !.sensor.lastSample = now]
          io1 == analogRead(io)
          reading == interpretState(p1, analogValue, p1.currentState)
          p2 == IF reading # p1.instantaneousState
                  THEN [p1 EXCEPT !.instantaneousState = reading,
                                  !.sensor.lastChanged = now]
                  ELSE p1
      IN  IF now >= (p2.sensor.lastChanged + DEBOUNCE_DELAY) % ULONG_MODULUS
             /\ reading # p2.currentState
            THEN applyPointLogic([p2 EXCEPT !.currentState = reading,
                                            !.sensor.lastAnalog = analogValue,
                                            !.reportedState = -1], io1)
            ELSE [point |-> p2, io |-> io1]

\* faulty variant: every sample that differs from the accepted state
\* restarts the debounce time
updatePointRestartsWhilePending(point, io, now, analogValue) ==
  IF USub(now, point.sensor.lastSample) < SENSOR_SAMPLE_INTERVAL
    THEN [point |-> point, io |-> io]
    ELSE
      LET p1 == [point EXCEPT !.sensor.lastSample = now]
          io1 == analogRead(io)
          reading == interpretState(p1, analogValue, p1.currentState)
          p2 == IF reading # p1.currentState
                  THEN [p1 EXCEPT !.instantaneousState = reading,
                                  !.sensor.lastChanged = now]
                  ELSE p1
      IN  IF USub(now, p2.sensor.lastChanged) >= DEBOUNCE_DELAY
             /\ reading # p2.currentState
            THEN applyPointLogic([p2 EXCEPT !.currentState = reading,
                                            !.sensor.lastAnalog = analogValue,
                                            !.reportedState = -1], io1)
            ELSE [point |-> p2, io |-> io1]

\* faulty variant: a call that comes before the sample interval has passed
\* restarts the interval
updatePointStampsEarly(point, io, now, analogValue) ==
  IF USub(now, point.sensor.lastSample) < SENSOR_SAMPLE_INTERVAL
    THEN [point |-> [point EXCEPT !.sensor.lastSample = now], io |-> io]
    ELSE
      LET p1 == [point EXCEPT !.sensor.lastSample = now]
          io1 == analogRead(io)
          reading == interpretState(p1, analogValue, p1.currentState)
          p2 == IF reading # p1.instantaneousState
                  THEN [p1 EXCEPT !.instantaneousState = reading,
                                  !.sensor.lastChanged = now]
                  ELSE p1
      IN  IF USub(now, p2.sensor.lastChanged) >= DEBOUNCE_DELAY
             /\ reading # p2.currentState
            THEN applyPointLogic([p2 EXCEPT !.currentState = reading,
                                            !.sensor.lastAnalog = analogValue,
                                            !.reportedState = -1], io1)
            ELSE [point |-> p2, io |-> io1]

\* faulty variant: a candidate is accepted one sampling interval late
updatePointLongerDelay(point, io, now, analogValue) ==
  IF USub(now, point.sensor.lastSample) < SENSOR_SAMPLE_INTERVAL
    THEN [point |-> point, io |-> io]
    ELSE
      LET p1 == [point EXCEPT !.sensor.lastSample = now]
          io1 == analogRead(io)
          reading == interpretState(p1, analogValue, p1.currentState)
          p2 == IF reading # p1.instantaneousState
                  THEN [p1 EXCEPT !.instantaneousState = reading,
                                  !.sensor.lastChanged = now]
                  ELSE p1
      IN  IF USub(now, p2.sensor.lastChanged) >= DEBOUNCE_DELAY + SENSOR_SAMPLE_INTERVAL
             /\ reading # p2.currentState
            THEN applyPointLogic([p2 EXCEPT !.currentState = reading,
                                            !.sensor.lastAnalog = analogValue,
                                            !.reportedState = -1], io1)
            ELSE [point |-> p2, io |-> io1]

\* faulty variant: a differing reading is accepted without the debounce delay
updatePointNoDelay(point, io, now, analogValue) ==
  IF USub(now, point.sensor.lastSample) < SENSOR_SAMPLE_INTERVAL
    THEN [point |-> point, io |-> io]
    ELSE
      LET p1 == [point EXCEPT !.sensor.lastSample = now]
          io1 == analogRead(io)
          reading == interpretState(p1, analogValue, p1.currentState)
          p2 == IF reading # p1.instantaneousState
                  THEN [p1 EXCEPT !.instantaneousState = reading,
                                  !.sensor.lastChanged = now]
                  ELSE p1
      IN  IF reading # p2.currentState
            THEN applyPointLogic([p2 EXCEPT !.currentState = reading,
                                            !.sensor.lastAnalog = analogValue,
                                            !.reportedState = -1], io1)
            ELSE [point |-> p2, io |-> io1]

updatePoint(point, io, now, analogValue) ==
  IF USub(now, point.sensor.lastSample) < SENSOR_SAMPLE_INTERVAL
    THEN [point |-> point, io |-> io]
    ELSE
      LET p1 == [point EXCEPT !.sensor.lastSample = now]
          io1 == analogRead(io)
          reading == interpretState(p1, analogValue, p1.currentState)
          p2 == IF reading # p1.instantaneousState
                  THEN [p1 EXCEPT !.instantaneousState = reading,
                                  !.sensor.lastChanged = now]
                  ELSE p1
      IN  IF USub(now, p2.sensor.lastChanged) >= DEBOUNCE_DELAY
             /\ reading # p2.currentState
            THEN applyPointLogic([p2 EXCEPT !.currentState = reading,
                                            !.sensor.lastAnalog = analogValue,
                                            !.reportedState = -1], io1)
            ELSE [point |-> p2, io |-> io1]

\* ------------------------------------------------------------------------
\* Sketch "ino" (src/railway_crossover_control.ino)
\* ------------------------------------------------------------------------

pointControls ==
  <<
    [ label |-> "Coacting Crossover", type |-> POINT_COACTING, sensorPin |-> "A2",
      relayLine1 |-> RELAY_LINE1_RIGHT_TO_LEFT, relayLine2 |-> RELAY_LINE2_LEFT_TO_RIGHT,
      analogThreshold |-> ANALOG_THRESHOLD, analogHysteresis |-> ANALOG_HYSTERESIS,
      currentState |-> CROSSOVER_ACTIVE, lastReading |-> CROSSOVER_ACTIVE,
      lastDebounceTime |-> 0, lastSampleTime |-> 0, lastAnalogValue |-> 0,
      lastStatus |-> -1 ],
    [ label |-> "North Y Junction", type |-> POINT_Y_BRANCH, sensorPin |-> "A3",
      relayLine1 |-> RELAY_Y1_LINE1, relayLine2 |-> RELAY_Y1_LINE2,
      analogThreshold |-> ANALOG_THRESHOLD, analogHysteresis |-> ANALOG_HYSTERESIS,
      currentState |-> ROUTE_LINE1_TO_LINE3, lastReading |-> ROUTE_LINE1_TO_LINE3,
      lastDebounceTime |-> 0, lastSampleTime |-> 0, lastAnalogValue |-> 0,
      lastStatus |-> -1 ],
    [ label |-> "South Y Junction", type |-> POINT_Y_BRANCH, sensorPin |-> "A4",
      relayLine1 |-> RELAY_Y2_LINE1, relayLine2 |-> RELAY_Y2_LINE2,
      analogThreshold |-> ANALOG_THRESHOLD, analogHysteresis |-> ANALOG_HYSTERESIS,
      currentState |-> ROUTE_LINE1_TO_LINE3, lastReading |-> ROUTE_LINE1_TO_LINE3,
      lastDebounceTime |-> 0, lastSampleTime |-> 0, lastAnalogValue |-> 0,
      lastStatus |-> -1 ]
  >>

interpretStateIno(point, analogValue, priorState) ==
  interpretBody(point.type, point.analogThreshold, point.analogHysteresis,
                analogValue, priorState)

\* faulty variant: the status is printed on every call, changed or not
applyPointLogicInoAlwaysPrints(point, io) ==
  LET io1 == applyRelays(point.type, point.currentState,
                         point.relayLine1, point.relayLine2, io)
  IN  [point |-> [point EXCEPT !.lastStatus = point.currentState],
       io |-> SerialReport(io1, point.label, point.currentState,
                           point.lastAnalogValue, point.analogThreshold)]

applyPointLogicIno(point, io) ==
  LET io1 == applyRelays(point.type, point.currentState,
                         point.relayLine1, point.relayLine2, io)
  IN  IF point.lastStatus # point.currentState
        THEN [point |-> [point EXCEPT !.lastStatus = point.currentState],
              io |-> SerialReport(io1, point.label, point.currentState,
                                  point.lastAnalogValue, point.analogThreshold)]
        ELSE [point |-> point, io |-> io1]

\* faulty variant: the first reading is held back as a candidate, the
\* configured state stays accepted
initializePointInoKeepsDefault(point, io, now, analogValue) ==
  LET p1 == [point EXCEPT !.lastDebounceTime = now,
                          !.lastSampleTime = USub(now, SENSOR_SAMPLE_INTERVAL),
                          !.lastAnalogValue = analogValue]
      st == interpretStateIno(p1, analogValue, p1.currentState)
      p2 == [p1 EXCEPT !.lastReading = st,
                       !.lastStatus = -1]
  IN  applyPointLogicIno(p2, analogRead(io))

initializePointIno(point, io, now, analogValue) ==
  LET p1 == [point EXCEPT !.lastDebounceTime = now,
                          !.lastSampleTime = USub(now, SENSOR_SAMPLE_INTERVAL),
                          !.lastAnalogValue = analogValue]
      st == interpretStateIno(p1, analogValue, p1.currentState)
      p2 == [p1 EXCEPT !.currentState = st,
                       !.lastReading = st,
                       !.lastStatus = -1]
  IN  applyPointLogicIno(p2, analogRead(io))

\* faulty variant: the accepted state follows the reading without debounce
updatePointInoNoDebounce(point, io, now, analogValue) ==
  IF USub(now, point.lastSampleTime) < SENSOR_SAMPLE_INTERVAL
    THEN [point |-> point, io |-> io]
    ELSE
      LET p1 == [point EXCEPT !.lastSampleTime = now]
          io1 == analogRead(io)
          reading == interpretStateIno(p1, analogValue, p1.currentState)
          p2 == IF reading # p1.lastReading
                  THEN [p1 EXCEPT !.lastDebounceTime = now]
                  ELSE p1
          p3 == [p2 EXCEPT !.lastReading = reading]
          p4 == IF p3.currentState # reading
                  THEN [p3 EXCEPT !.currentState = reading,
                                  !.lastAnalogValue = analogValue,
                                  !.lastStatus = -1]
                  ELSE p3
      IN  applyPointLogicIno(p4, io1)

\* faulty variant: the debounce time is that of the last sample that agreed
\* with the accepted state
updatePointInoFromLastAgreeing(point, io, now, analogValue) ==
  IF USub(now, point.lastSampleTime) < SENSOR_SAMPLE_INTERVAL
    THEN [point |-> point, io |-> io]
    ELSE
      LET p1 == [point EXCEPT !.lastSampleTime = now]
          io1 == analogRead(io)
          reading == interpretStateIno(p1, analogValue, p1.currentState)
          p2 == IF reading = p1.currentState
                  THEN [p1 EXCEPT !.lastDebounceTime = now]
                  ELSE p1
          p3 == [p2 EXCEPT !.lastReading = reading]
          p4 == IF USub(now, p3.lastDebounceTime) >= DEBOUNCE_DELAY
                   /\ p3.currentState # reading
                  THEN [p3 EXCEPT !.currentState = reading,
                                  !.lastAnalogValue = analogValue,
                                  !.lastStatus = -1]
                  ELSE p3
      IN  applyPointLogicIno(p4, io1)

\* faulty variant: the reading must have been stable for longer than
\* DEBOUNCE_DELAY, not at least that long
updatePointInoStrictDelay(point, io, now, analogValue) ==
  IF USub(now, point.lastSampleTime) < SENSOR_SAMPLE_INTERVAL
    THEN [point |-> point, io |-> io]
    ELSE
      LET p1 == [point EXCEPT !.lastSampleTime = now]
          io1 == analogRead(io)
          reading == interpretStateIno(p1, analogValue, p1.currentState)
          p2 == IF reading # p1.lastReading
                  THEN [p1 EXCEPT !.lastDebounceTime = now]
                  ELSE p1
          p3 == [p2 EXCEPT !.lastReading = reading]
          p4 == IF USub(now, p3.lastDebounceTime) > DEBOUNCE_DELAY
                   /\ p3.currentState # reading
                  THEN [p3 EXCEPT !.currentState = reading,
                                  !.lastAnalogValue = analogValue,
                                  !.lastStatus = -1]
                  ELSE p3
      IN  applyPointLogicIno(p4, io1)

\* faulty variant: every sampled tick sets the force-log marker, changed or not
updatePointInoForcesLog(point, io, now, analogValue) ==
  IF USub(now, point.lastSampleTime) < SENSOR_SAMPLE_INTERVAL
    THEN [point |-> point, io |-> io]
    ELSE
      LET p1 == [point EXCEPT !.lastSampleTime = now]
          io1 == analogRead(io)
          reading == interpretStateIno(p1, analogValue, p1.currentState)
          p2 == IF reading # p1.lastReading
                  THEN [p1 EXCEPT !.lastDebounceTime = now]
                  ELSE p1
          p3 == [p2 EXCEPT !.lastReading = reading]
          p4 == IF USub(now, p3.lastDebounceTime) >= DEBOUNCE_DELAY
                   /\ p3.currentState # reading
                  THEN [p3 EXCEPT !.currentState = reading,
                                  !.lastAnalogValue = analogValue,
                                  !.lastStatus = -1]
                  ELSE [p3 EXCEPT !.lastStatus = -1]
      IN  applyPointLogicIno(p4, io1)

updatePointIno(point, io, now, analogValue) ==
  IF USub(now, point.lastSampleTime) < SENSOR_SAMPLE_INTERVAL
    THEN [point |-> point, io |-> io]
    ELSE
      LET p1 == [point EXCEPT !.lastSampleTime = now]
          io1 == analogRead(io)
          reading == interpretStateIno(p1, analogValue, p1.currentState)
          p2 == IF reading # p1.lastReading
                  THEN [p1 EXCEPT !.lastDebounceTime = now]
                  ELSE p1
          p3 == [p2 EXCEPT !.lastReading = reading]
          p4 == IF USub(now, p3.lastDebounceTime) >= DEBOUNCE_DELAY
                   /\ p3.currentState # reading
                  THEN [p3 EXCEPT !.currentState = reading,
                                  !.lastAnalogValue = analogValue,
                                  !.lastStatus = -1]
                  ELSE p3
      IN  applyPointLogicIno(p4, io1)

\* ------------------------------------------------------------------------
\* Sketch "crossing" (src/unnamed/part_000): the crossing-light controller
\* ------------------------------------------------------------------------

SENSOR_WEST_PIN == "A0"
SENSOR_EAST_PIN == "A1"

LIGHT_LEFT_PIN == 9
LIGHT_RIGHT_PIN == 10

SENSOR_SAMPLE_INTERVAL_MS == 25
SENSOR_DEBOUNCE_MS == 60
CALIBRATION_SAMPLES == 400
OCCUPANCY_THRESHOLD == 30
BASELINE_TRACKING_DIVISOR == 64

FLASH_INTERVAL_MS == 500
RELEASE_TIMEOUT_MS == 10000

LIGHT_ACTIVE_STATE == 1
LIGHT_INACTIVE_STATE == 0

APPROACH_NONE == "APPROACH_NONE"
APPROACH_FROM_WEST == "APPROACH_FROM_WEST"
APPROACH_FROM_EAST == "APPROACH_FROM_EAST"

\* index of each sensor in sensors[]
WEST == 0
EAST == 1

\* the timer of the crossing controller wraps after CrossingTimerSteps long
\* steps of loop(); a long step is LongStep ms (millis() is an unsigned long:
\* the model keeps its modular arithmetic with this shorter period)
LongStep == 2500
CrossingTimerSteps == 8
CrossingTimerPeriod == CrossingTimerSteps * LongStep

\* unsigned long subtraction in the crossing controller
ElapsedMs(a, b) == (a - b) % CrossingTimerPeriod

\* abs() of Arduino.h
abs(x) == IF x < 0 THEN 0 - x ELSE x

\* int division of C: the quotient is truncated toward zero
CDiv(a, b) == IF a >= 0 THEN a \div b ELSE 0 - ((0 - a) \div b)

\* Serial.print / Serial.println of one line
SerialPrintln(io, line) == [io EXCEPT !.serial = Append(@, line)]

\* sensors[] as the static initializers leave it
sensorsStatic ==
  [i \in {WEST, EAST} |->
     [ label |-> IF i = WEST THEN "West Approach" ELSE "East Approach",
       pin |-> IF i = WEST THEN SENSOR_WEST_PIN ELSE SENSOR_EAST_PIN,
       baseline |-> 0,
       threshold |-> OCCUPANCY_THRESHOLD,
       occupied |-> FALSE,
       rawState |-> FALSE,
       lastSample |-> 0,
       lastDebounceChange |-> 0 ]]

\* the state variables of the crossing as the static initializers leave them
crossingStatic ==
  [ crossingActive |-> FALSE,
    activeDirection |-> APPROACH_NONE,
    farSensorSeen |-> FALSE,
    lastOccupancyActivity |-> 0,
    leftLampOn |-> FALSE,
    lastFlashToggle |-> 0 ]

\* one pass of calibrateSensors' outer loop: CALIBRATION_SAMPLES readings of
\* the level at the pin, 2 ms apart, averaged; `now` is millis() after them
calibrateSensor(sensor, io, now, level) ==
  LET accumulator == CALIBRATION_SAMPLES * level
      s1 == [sensor EXCEPT !.baseline = CDiv(accumulator, CALIBRATION_SAMPLES),
                           !.lastSample = now,
                           !.lastDebounceChange = now]
  IN  [sensor |-> s1,
       io |-> SerialPrintln([io EXCEPT !.reads = @ + CALIBRATION_SAMPLES],
                            <<sensor.label, "baseline", s1.baseline>>)]

\* faulty variant: a flip of the raw state does not restart the debounce
\* time
updateSensorNoRestart(sensor, io, now, reading) ==
  IF ElapsedMs(now, sensor.lastSample) < SENSOR_SAMPLE_INTERVAL_MS
    THEN [sensor |-> sensor, io |-> io, occupied |-> sensor.occupied]
    ELSE
      LET s1 == [sensor EXCEPT !.lastSample = now]
          io1 == analogRead(io)
          delta == reading - s1.baseline
          rawState == abs(delta) >= s1.threshold
          adjustment == CDiv(s1.baseline - reading, BASELINE_TRACKING_DIVISOR)
          s2 == IF ~rawState THEN [s1 EXCEPT !.baseline = @ - adjustment] ELSE s1
          s3 == IF rawState # s2.rawState
                  THEN [s2 EXCEPT !.rawState = rawState]
                  ELSE s2
          accept == /\ ElapsedMs(now, s3.lastDebounceChange) >= SENSOR_DEBOUNCE_MS
                    /\ s3.occupied # s3.rawState
          s4 == IF accept THEN [s3 EXCEPT !.occupied = s3.rawState] ELSE s3
          io2 == IF accept
                   THEN SerialPrintln(io1, <<s4.label, "occupancy",
                                             IF s4.occupied THEN "DETECTED" ELSE "CLEAR">>)
                   ELSE io1
      IN  [sensor |-> s4, io |-> io2, occupied |-> s4.occupied]

updateSensor(sensor, io, now, reading) ==
  IF ElapsedMs(now, sensor.lastSample) < SENSOR_SAMPLE_INTERVAL_MS
    THEN [sensor |-> sensor, io |-> io, occupied |-> sensor.occupied]
    ELSE
      LET s1 == [sensor EXCEPT !.lastSample = now]
          io1 == analogRead(io)
          delta == reading - s1.baseline
          rawState == abs(delta) >= s1.threshold
          adjustment == CDiv(s1.baseline - reading, BASELINE_TRACKING_DIVISOR)
          s2 == IF ~rawState THEN [s1 EXCEPT !.baseline = @ - adjustment] ELSE s1
          s3 == IF rawState # s2.rawState
                  THEN [s2 EXCEPT !.rawState = rawState, !.lastDebounceChange = now]
                  ELSE s2
          accept == /\ ElapsedMs(now, s3.lastDebounceChange) >= SENSOR_DEBOUNCE_MS
                    /\ s3.occupied # s3.rawState
          s4 == IF accept THEN [s3 EXCEPT !.occupied = s3.rawState] ELSE s3
          io2 == IF accept
                   THEN SerialPrintln(io1, <<s4.label, "occupancy",
                                             IF s4.occupied THEN "DETECTED" ELSE "CLEAR">>)
                   ELSE io1
      IN  [sensor |-> s4, io |-> io2, occupied |-> s4.occupied]

\* faulty variant: the far-side sensor is never marked as seen at activation
activateCrossingFarUnseen(g, io, now, direction, otherSensorAlreadyActive) ==
  LET g1 == [g EXCEPT !.crossingActive = TRUE,
                      !.activeDirection = direction,
                      !.farSensorSeen = FALSE,
                      !.lastFlashToggle = now,
                      !.leftLampOn = TRUE]
      io1 == digitalWrite(digitalWrite(io, LIGHT_LEFT_PIN, LIGHT_ACTIVE_STATE),
                          LIGHT_RIGHT_PIN, LIGHT_INACTIVE_STATE)
      io2 == SerialPrintln(io1, <<"Crossing activated from",
                                  IF direction = APPROACH_FROM_WEST THEN "WEST" ELSE "EAST">>)
  IN  [g |-> g1, io |-> io2]

activateCrossing(g, io, now, direction, otherSensorAlreadyActive) ==
  LET g1 == [g EXCEPT !.crossingActive = TRUE,
                      !.activeDirection = direction,
                      !.farSensorSeen = otherSensorAlreadyActive,
                      !.lastFlashToggle = now,
                      !.leftLampOn = TRUE]
      io1 == digitalWrite(digitalWrite(io, LIGHT_LEFT_PIN, LIGHT_ACTIVE_STATE),
                          LIGHT_RIGHT_PIN, LIGHT_INACTIVE_STATE)
      io2 == SerialPrintln(io1, <<"Crossing activated from",
                                  IF direction = APPROACH_FROM_WEST THEN "WEST" ELSE "EAST">>)
  IN  [g |-> g1,
       io |-> IF g1.farSensorSeen
                THEN SerialPrintln(io2, <<"Both sensors already active at activation.">>)
                ELSE io2]

\* faulty variant: the far-sensor flag survives the release
deactivateCrossingKeepsFarSeen(g, io) ==
  [g |-> [g EXCEPT !.crossingActive = FALSE,
                   !.activeDirection = APPROACH_NONE,
                   !.leftLampOn = FALSE],
   io |-> SerialPrintln(
            digitalWrite(digitalWrite(io, LIGHT_LEFT_PIN, LIGHT_INACTIVE_STATE),
                         LIGHT_RIGHT_PIN, LIGHT_INACTIVE_STATE),
            <<"Crossing deactivated.">>)]

deactivateCrossing(g, io) ==
  [g |-> [g EXCEPT !.crossingActive = FALSE,
                   !.activeDirection = APPROACH_NONE,
                   !.farSensorSeen = FALSE,
                   !.leftLampOn = FALSE],
   io |-> SerialPrintln(
            digitalWrite(digitalWrite(io, LIGHT_LEFT_PIN, LIGHT_INACTIVE_STATE),
                         LIGHT_RIGHT_PIN, LIGHT_INACTIVE_STATE),
            <<"Crossing deactivated.">>)]

\* faulty variant: the crossing is released as soon as one of the two
\* sensors is clear
refreshCrossingStateOneClear(g, io, westOccupied, eastOccupied, now) ==
  LET anyOccupied == westOccupied \/ eastOccupied
      g1 == IF anyOccupied THEN [g EXCEPT !.lastOccupancyActivity = now] ELSE g
  IN  IF ~g1.crossingActive
        THEN IF westOccupied
               THEN activateCrossing(g1, io, now, APPROACH_FROM_WEST, eastOccupied)
             ELSE IF eastOccupied
               THEN activateCrossing(g1, io, now, APPROACH_FROM_EAST, westOccupied)
             ELSE [g |-> g1, io |-> io]
        ELSE
          LET seen == /\ ~g1.farSensorSeen
                      /\ \/ g1.activeDirection = APPROACH_FROM_WEST /\ eastOccupied
                         \/ g1.activeDirection = APPROACH_FROM_EAST /\ westOccupied
              g2 == IF seen THEN [g1 EXCEPT !.farSensorSeen = TRUE] ELSE g1
              io2 == IF seen THEN SerialPrintln(io, <<"Far-side sensor detected.">>) ELSE io
          IN  IF ~westOccupied \/ ~eastOccupied
                THEN IF g2.farSensorSeen
                       THEN deactivateCrossing(
                              g2, SerialPrintln(io2, <<"Both sensors clear after traversal.">>))
                     ELSE IF ElapsedMs(now, g2.lastOccupancyActivity) >= RELEASE_TIMEOUT_MS
                       THEN deactivateCrossing(
                              g2, SerialPrintln(io2, <<"Release timeout reached.">>))
                     ELSE [g |-> g2, io |-> io2]
                ELSE [g |-> g2, io |-> io2]

\* faulty variant: lastOccupancyActivity is stamped only while the crossing
\* is not yet active
refreshCrossingStateStampedOnce(g, io, westOccupied, eastOccupied, now) ==
  LET anyOccupied == westOccupied \/ eastOccupied
      g1 == IF anyOccupied /\ ~g.crossingActive
              THEN [g EXCEPT !.lastOccupancyActivity = now] ELSE g
  IN  IF ~g1.crossingActive
        THEN IF westOccupied
               THEN activateCrossing(g1, io, now, APPROACH_FROM_WEST, eastOccupied)
             ELSE IF eastOccupied
               THEN activateCrossing(g1, io, now, APPROACH_FROM_EAST, westOccupied)
             ELSE [g |-> g1, io |-> io]
        ELSE
          LET seen == /\ ~g1.farSensorSeen
                      /\ \/ g1.activeDirection = APPROACH_FROM_WEST /\ eastOccupied
                         \/ g1.activeDirection = APPROACH_FROM_EAST /\ westOccupied
              g2 == IF seen THEN [g1 EXCEPT !.farSensorSeen = TRUE] ELSE g1
              io2 == IF seen THEN SerialPrintln(io, <<"Far-side sensor detected.">>) ELSE io
          IN  IF ~westOccupied /\ ~eastOccupied
                THEN IF g2.farSensorSeen
                       THEN deactivateCrossing(
                              g2, SerialPrintln(io2, <<"Both sensors clear after traversal.">>))
                     ELSE IF ElapsedMs(now, g2.lastOccupancyActivity) >= RELEASE_TIMEOUT_MS
                       THEN deactivateCrossing(
                              g2, SerialPrintln(io2, <<"Release timeout reached.">>))
                     ELSE [g |-> g2, io |-> io2]
                ELSE [g |-> g2, io |-> io2]

\* faulty variant: without the fail-safe release
refreshCrossingStateNoTimeout(g, io, westOccupied, eastOccupied, now) ==
  LET anyOccupied == westOccupied \/ eastOccupied
      g1 == IF anyOccupied THEN [g EXCEPT !.lastOccupancyActivity = now] ELSE g
  IN  IF ~g1.crossingActive
        THEN IF westOccupied
               THEN activateCrossing(g1, io, now, APPROACH_FROM_WEST, eastOccupied)
             ELSE IF eastOccupied
               THEN activateCrossing(g1, io, now, APPROACH_FROM_EAST, westOccupied)
             ELSE [g |-> g1, io |-> io]
        ELSE
          LET seen == /\ ~g1.farSensorSeen
                      /\ \/ g1.activeDirection = APPROACH_FROM_WEST /\ eastOccupied
                         \/ g1.activeDirection = APPROACH_FROM_EAST /\ westOccupied
              g2 == IF seen THEN [g1 EXCEPT !.farSensorSeen = TRUE] ELSE g1
              io2 == IF seen THEN SerialPrintln(io, <<"Far-side sensor detected.">>) ELSE io
          IN  IF ~westOccupied /\ ~eastOccupied
                THEN IF g2.farSensorSeen
                       THEN deactivateCrossing(
                              g2, SerialPrintln(io2, <<"Both sensors clear after traversal.">>))
                     ELSE [g |-> g2, io |-> io2]
                ELSE [g |-> g2, io |-> io2]

refreshCrossingState(g, io, westOccupied, eastOccupied, now) ==
  LET anyOccupied == westOccupied \/ eastOccupied
      g1 == IF anyOccupied THEN [g EXCEPT !.lastOccupancyActivity = now] ELSE g
  IN  IF ~g1.crossingActive
        THEN IF westOccupied
               THEN activateCrossing(g1, io, now, APPROACH_FROM_WEST, eastOccupied)
             ELSE IF eastOccupied
               THEN activateCrossing(g1, io, now, APPROACH_FROM_EAST, westOccupied)
             ELSE [g |-> g1, io |-> io]
        ELSE
          LET seen == /\ ~g1.farSensorSeen
                      /\ \/ g1.activeDirection = APPROACH_FROM_WEST /\ eastOccupied
                         \/ g1.activeDirection = APPROACH_FROM_EAST /\ westOccupied
              g2 == IF seen THEN [g1 EXCEPT !.farSensorSeen = TRUE] ELSE g1
              io2 == IF seen THEN SerialPrintln(io, <<"Far-side sensor detected.">>) ELSE io
          IN  IF ~westOccupied /\ ~eastOccupied
                THEN IF g2.farSensorSeen
                       THEN deactivateCrossing(
                              g2, SerialPrintln(io2, <<"Both sensors clear after traversal.">>))
                     ELSE IF ElapsedMs(now, g2.lastOccupancyActivity) >= RELEASE_TIMEOUT_MS
                       THEN deactivateCrossing(
                              g2, SerialPrintln(io2, <<"Release timeout reached.">>))
                     ELSE [g |-> g2, io |-> io2]
                ELSE [g |-> g2, io |-> io2]

\* faulty variant: the swap drives the left lamp only
updateLightsLeftOnly(g, io, now) ==
  IF ~g.crossingActive THEN [g |-> g, io |-> io]
  ELSE IF ElapsedMs(now, g.lastFlashToggle) >= FLASH_INTERVAL_MS
    THEN LET g1 == [g EXCEPT !.lastFlashToggle = now, !.leftLampOn = ~g.leftLampOn]
         IN  [g |-> g1,
              io |-> digitalWrite(io, LIGHT_LEFT_PIN,
                                  IF g1.leftLampOn THEN LIGHT_ACTIVE_STATE
                                                   ELSE LIGHT_INACTIVE_STATE)]
  ELSE [g |-> g, io |-> io]

\* faulty variant: the lamps swap only when more than FLASH_INTERVAL_MS has
\* passed
updateLightsStrictInterval(g, io, now) ==
  IF ~g.crossingActive THEN [g |-> g, io |-> io]
  ELSE IF ElapsedMs(now, g.lastFlashToggle) > FLASH_INTERVAL_MS
    THEN LET g1 == [g EXCEPT !.lastFlashToggle = now, !.leftLampOn = ~g.leftLampOn]
         IN  [g |-> g1,
              io |-> digitalWrite(
                       digitalWrite(io, LIGHT_LEFT_PIN,
                                    IF g1.leftLampOn THEN LIGHT_ACTIVE_STATE
                                                     ELSE LIGHT_INACTIVE_STATE),
                       LIGHT_RIGHT_PIN,
                       IF g1.leftLampOn THEN LIGHT_INACTIVE_STATE
                                        ELSE LIGHT_ACTIVE_STATE)]
  ELSE [g |-> g, io |-> io]

updateLights(g, io, now) ==
  IF ~g.crossingActive THEN [g |-> g, io |-> io]
  ELSE IF ElapsedMs(now, g.lastFlashToggle) >= FLASH_INTERVAL_MS
    THEN LET g1 == [g EXCEPT !.lastFlashToggle = now, !.leftLampOn = ~g.leftLampOn]
         IN  [g |-> g1,
              io |-> digitalWrite(
                       digitalWrite(io, LIGHT_LEFT_PIN,
                                    IF g1.leftLampOn THEN LIGHT_ACTIVE_STATE
                                                     ELSE LIGHT_INACTIVE_STATE),
                       LIGHT_RIGHT_PIN,
                       IF g1.leftLampOn THEN LIGHT_INACTIVE_STATE
                                        ELSE LIGHT_ACTIVE_STATE)]
  ELSE [g |-> g, io |-> io]

\* the body of loop() of the crossing controller, millis() being `now` and
\* the levels at the two sensor pins `level`
loopCrossing(ss, g, io, now, level) ==
  LET w == updateSensor(ss[WEST], io, now, level[WEST])
      e == updateSensor(ss[EAST], w.io, now, level[EAST])
      r == refreshCrossingState(g, e.io, w.occupied, e.occupied, now)
      l == updateLights(r.g, r.io, now)
  IN  [sensors |-> [ss EXCEPT ![WEST] = w.sensor, ![EAST] = e.sensor],
       westOccupied |-> w.occupied,
       eastOccupied |-> e.occupied,
       g |-> l.g,
       io |-> l.io]

\* ------------------------------------------------------------------------
\* Sketches "binary" (src/railway_crossover_control.ino, lines 280-508) and
\* "coacting" (src/unnamed/part_003, lines 1-202): one point, read in every
\* loop()
\* ------------------------------------------------------------------------

POINTS_SENSOR_PIN == 2

LED_LINE1_BLOCKED == 5
LED_LINE2_BLOCKED == 6
LED_POINTS_POSITION == 7

POINTS_FOR_LINE1 == 0
POINTS_FOR_LINE2 == 1

LOW == 0
HIGH == 1

\* digitalRead: the value read is the caller's reading
digitalRead(io) == [io EXCEPT !.reads = @ + 1]

\* the global variables of "binary" as the static initializers leave them;
\* lastStateIf and lastStateElse are the two static locals, both named
\* lastState, of the two branches of controlTrackPower
binaryStatic ==
  [ currentPointsPosition |-> POINTS_FOR_LINE1,
    lastPointsReading |-> POINTS_FOR_LINE1,
    lastDebounceTime |-> 0,
    lastStateIf |-> -1,
    lastStateElse |-> -1 ]

\* faulty variant: setup() also cuts the approach the first reading is
\* against
setupBinaryAppliesReading(g, io, reading) ==
  LET io1 == SerialPrintln(io, "Railway Crossover Control System Initializing...")
      io2 == digitalWrite(digitalWrite(io1, RELAY_LINE1_RIGHT_TO_LEFT, TRACK_POWER_ON),
                          RELAY_LINE2_LEFT_TO_RIGHT, TRACK_POWER_ON)
      io3 == digitalWrite(digitalWrite(digitalWrite(io2, LED_LINE1_BLOCKED, LOW),
                                       LED_LINE2_BLOCKED, LOW),
                          LED_POINTS_POSITION, LOW)
      g1 == [g EXCEPT !.currentPointsPosition = reading]
      io4 == digitalWrite(digitalRead(io3),
                          IF reading = POINTS_FOR_LINE1 THEN RELAY_LINE2_LEFT_TO_RIGHT
                                                        ELSE RELAY_LINE1_RIGHT_TO_LEFT,
                          TRACK_POWER_OFF)
  IN  [g |-> g1,
       io |-> SerialPrintln(
                SerialPrintln(io4, "System Ready!"),
                IF g1.currentPointsPosition = POINTS_FOR_LINE1
                  THEN "Points Position: Line 1" ELSE "Points Position: Line 2")]

\* setup() of "binary", the sensor pin reading `reading`
setupBinary(g, io, reading) ==
  LET io1 == SerialPrintln(io, "Railway Crossover Control System Initializing...")
      io2 == digitalWrite(digitalWrite(io1, RELAY_LINE1_RIGHT_TO_LEFT, TRACK_POWER_ON),
                          RELAY_LINE2_LEFT_TO_RIGHT, TRACK_POWER_ON)
      io3 == digitalWrite(digitalWrite(digitalWrite(io2, LED_LINE1_BLOCKED, LOW),
                                       LED_LINE2_BLOCKED, LOW),
                          LED_POINTS_POSITION, LOW)
      g1 == [g EXCEPT !.currentPointsPosition = reading]
  IN  [g |-> g1,
       io |-> SerialPrintln(
                SerialPrintln(digitalRead(io3), "System Ready!"),
                IF g1.currentPointsPosition = POINTS_FOR_LINE1
                  THEN "Points Position: Line 1" ELSE "Points Position: Line 2")]

\* readPointsPosition; both its millis() calls return `now`
readPointsPosition(g, io, now, reading) ==
  LET io1 == digitalRead(io)
      g1 == IF reading # g.lastPointsReading THEN [g EXCEPT !.lastDebounceTime = now] ELSE g
      accept == /\ USub(now, g1.lastDebounceTime) > DEBOUNCE_DELAY
                /\ reading # g1.currentPointsPosition
      g2 == IF accept THEN [g1 EXCEPT !.currentPointsPosition = reading] ELSE g1
      io2 == IF accept
               THEN digitalWrite(
                      SerialPrintln(io1, IF g2.currentPointsPosition = POINTS_FOR_LINE1
                                           THEN "Points changed to: Line 1"
                                           ELSE "Points changed to: Line 2"),
                      LED_POINTS_POSITION, g2.currentPointsPosition)
               ELSE io1
  IN  [g |-> [g2 EXCEPT !.lastPointsReading = reading], io |-> io2]

\* faulty variant: with the points for Line 2 the Line 1 approach keeps its
\* power
controlTrackPowerLine1Kept(g, io, available) ==
  IF g.currentPointsPosition = POINTS_FOR_LINE1
    THEN
      LET io1 == digitalWrite(digitalWrite(io, RELAY_LINE1_RIGHT_TO_LEFT, TRACK_POWER_ON),
                              LED_LINE1_BLOCKED, LOW)
          io2 == digitalWrite(digitalWrite(io1, RELAY_LINE2_LEFT_TO_RIGHT, TRACK_POWER_OFF),
                              LED_LINE2_BLOCKED, HIGH)
      IN  IF available = 0 /\ g.lastStateIf # 0
            THEN [g |-> [g EXCEPT !.lastStateIf = 0],
                  io |-> SerialPrintln(io2, "Status: Line 1 OPEN | Line 2 BLOCKED")]
            ELSE [g |-> g, io |-> io2]
    ELSE
      LET io1 == digitalWrite(io, LED_LINE1_BLOCKED, HIGH)
          io2 == digitalWrite(digitalWrite(io1, RELAY_LINE2_LEFT_TO_RIGHT, TRACK_POWER_ON),
                              LED_LINE2_BLOCKED, LOW)
      IN  IF available = 0 /\ g.lastStateElse # 1
            THEN [g |-> [g EXCEPT !.lastStateElse = 1],
                  io |-> SerialPrintln(io2, "Status: Line 1 BLOCKED | Line 2 OPEN")]
            ELSE [g |-> g, io |-> io2]

\* controlTrackPower of "binary"; available is Serial.available()
controlTrackPower(g, io, available) ==
  IF g.currentPointsPosition = POINTS_FOR_LINE1
    THEN
      LET io1 == digitalWrite(digitalWrite(io, RELAY_LINE1_RIGHT_TO_LEFT, TRACK_POWER_ON),
                              LED_LINE1_BLOCKED, LOW)
          io2 == digitalWrite(digitalWrite(io1, RELAY_LINE2_LEFT_TO_RIGHT, TRACK_POWER_OFF),
                              LED_LINE2_BLOCKED, HIGH)
      IN  IF available = 0 /\ g.lastStateIf # 0
            THEN [g |-> [g EXCEPT !.lastStateIf = 0],
                  io |-> SerialPrintln(io2, "Status: Line 1 OPEN | Line 2 BLOCKED")]
            ELSE [g |-> g, io |-> io2]
    ELSE
      LET io1 == digitalWrite(digitalWrite(io, RELAY_LINE1_RIGHT_TO_LEFT, TRACK_POWER_OFF),
                              LED_LINE1_BLOCKED, HIGH)
          io2 == digitalWrite(digitalWrite(io1, RELAY_LINE2_LEFT_TO_RIGHT, TRACK_POWER_ON),
                              LED_LINE2_BLOCKED, LOW)
      IN  IF available = 0 /\ g.lastStateElse # 1
            THEN [g |-> [g EXCEPT !.lastStateElse = 1],
                  io |-> SerialPrintln(io2, "Status: Line 1 BLOCKED | Line 2 OPEN")]
            ELSE [g |-> g, io |-> io2]

emergencyStop(g, io) ==
  [g |-> g,
   io |-> SerialPrintln(
            digitalWrite(
              digitalWrite(
                digitalWrite(digitalWrite(io, RELAY_LINE1_RIGHT_TO_LEFT, TRACK_POWER_OFF),
                             RELAY_LINE2_LEFT_TO_RIGHT, TRACK_POWER_OFF),
                LED_LINE1_BLOCKED, HIGH),
              LED_LINE2_BLOCKED, HIGH),
            "EMERGENCY STOP ACTIVATED!")]

resumeOperation(g, io, available) ==
  controlTrackPower(g, SerialPrintln(io, "Resuming normal operation..."), available)

\* the global variables of "coacting" as the static initializers leave them
coactingStatic ==
  [ currentCrossoverState |-> CROSSOVER_ACTIVE,
    lastCrossoverReading |-> CROSSOVER_ACTIVE,
    lastDebounceTime |-> 0,
    lastStateIf |-> -1,
    lastStateElse |-> -1 ]

\* the comparison of an analog reading with the threshold in setup() and
\* readCrossoverState of "coacting"
crossoverReading(analogReading) ==
  IF analogReading >= ANALOG_THRESHOLD THEN CROSSOVER_INACTIVE ELSE CROSSOVER_ACTIVE

\* setup() of "coacting", the sensor pin at the level analogReading
setupCoacting(g, io, analogReading) ==
  LET io1 == SerialPrintln(io, "Railway Crossover Control System - Coacting Point Initializing...")
      io2 == digitalWrite(digitalWrite(io1, RELAY_LINE1_RIGHT_TO_LEFT, TRACK_POWER_OFF),
                          RELAY_LINE2_LEFT_TO_RIGHT, TRACK_POWER_OFF)
      g1 == [g EXCEPT !.currentCrossoverState = crossoverReading(analogReading)]
  IN  [g |-> g1,
       io |-> SerialPrintln(
                SerialPrintln(
                  SerialPrintln(analogRead(io2), "System Ready!"),
                  <<"Analog Reading", analogReading, ANALOG_THRESHOLD>>),
                IF g1.currentCrossoverState = CROSSOVER_ACTIVE
                  THEN "Crossover State: ACTIVE (both blocked)"
                  ELSE "Crossover State: INACTIVE (both free)")]

\* readCrossoverState; both its millis() calls return `now`
readCrossoverState(g, io, now, analogReading) ==
  LET io1 == analogRead(io)
      reading == crossoverReading(analogReading)
      g1 == IF reading # g.lastCrossoverReading THEN [g EXCEPT !.lastDebounceTime = now] ELSE g
      accept == /\ USub(now, g1.lastDebounceTime) > DEBOUNCE_DELAY
                /\ reading # g1.currentCrossoverState
      g2 == IF accept THEN [g1 EXCEPT !.currentCrossoverState = reading] ELSE g1
      io2 == IF accept
               THEN SerialPrintln(
                      SerialPrintln(io1, IF g2.currentCrossoverState = CROSSOVER_ACTIVE
                                           THEN "Crossover changed to: ACTIVE (both blocked)"
                                           ELSE "Crossover changed to: INACTIVE (both free)"),
                      <<"Analog reading", analogReading, ANALOG_THRESHOLD>>)
               ELSE io1
  IN  [g |-> [g2 EXCEPT !.lastCrossoverReading = reading], io |-> io2]

\* controlTrackPower of "coacting"
controlTrackPowerCoacting(g, io) ==
  IF g.currentCrossoverState = CROSSOVER_ACTIVE
    THEN
      LET io1 == digitalWrite(digitalWrite(io, RELAY_LINE1_RIGHT_TO_LEFT, TRACK_POWER_OFF),
                              RELAY_LINE2_LEFT_TO_RIGHT, TRACK_POWER_OFF)
      IN  IF g.lastStateIf # 0
            THEN [g |-> [g EXCEPT !.lastStateIf = 0],
                  io |-> SerialPrintln(io1, "Status: BOTH LINES BLOCKED")]
            ELSE [g |-> g, io |-> io1]
    ELSE
      LET io1 == digitalWrite(digitalWrite(io, RELAY_LINE1_RIGHT_TO_LEFT, TRACK_POWER_ON),
                              RELAY_LINE2_LEFT_TO_RIGHT, TRACK_POWER_ON)
      IN  IF g.lastStateElse # 1
            THEN [g |-> [g EXCEPT !.lastStateElse = 1],
                  io |-> SerialPrintln(io1, "Status: BOTH LINES FREE")]
            ELSE [g |-> g, io |-> io1]

emergencyStopCoacting(g, io) ==
  [g |-> g,
   io |-> SerialPrintln(
            digitalWrite(digitalWrite(io, RELAY_LINE1_RIGHT_TO_LEFT, TRACK_POWER_OFF),
                         RELAY_LINE2_LEFT_TO_RIGHT, TRACK_POWER_OFF),
            "EMERGENCY STOP ACTIVATED!")]

resumeOperationCoacting(g, io) ==
  controlTrackPowerCoacting(g, SerialPrintln(io, "Resuming normal operation..."))

\* ------------------------------------------------------------------------
\* State
\* ------------------------------------------------------------------------

VARIABLES
  sketch,    \* which sketch runs: "points", "ino", "crossing", "binary" or "coacting"
  followed,  \* the entries of the controller array this run follows
  pending,   \* the entries (controllers, sensors) setup() has not initialized yet
  ctl,       \* the controller structs: pointControllers[] / pointControls[]
  pin,       \* level of each relay or lamp pin (NOT_DRIVEN until setup() drives it)
  serial,    \* the lines printed so far (crossing controller: by the last call)
  adc,       \* the level at each sensor pin
  now,       \* the last value read from millis()
  obs,       \* history: what the last call on each controller did
  cand,      \* history: the current run of equally interpreted samples
  rawrun,    \* history: the current run of the sensor level on one side
  glitch,    \* history: a single short excursion of the sensor level
  sampled,   \* history: the last analogRead of each sensor
  alone,     \* the same controllers, each run by itself on its own hardware
  permuted,  \* the last loop() done over again in every order of the controllers
  wq,        \* the digitalWrite calls of the running call still to be made
  wide,      \* history: the timestamps of a controller, not reduced modulo 2^32
  probe,     \* the arguments and result of one interpretState call
  sensors,               \* crossing controller: sensors[]
  crossingActive,        \* crossing controller: the lights are flashing
  activeDirection,       \* crossing controller: the side the train came from
  farSensorSeen,         \* crossing controller: the train reached the other side
  lastOccupancyActivity, \* crossing controller: millis() of the last occupancy
  leftLampOn,            \* crossing controller: which lamp is lit
  lastFlashToggle,       \* crossing controller: millis() of the last lamp swap
  refreshed,             \* history: the last refreshCrossingState call
  flash,                 \* history: the lamp swaps since the crossing was activated
  sampling,              \* history: the last updateSensor call on each sensor
  globals,   \* one-point sketches: the global variables and static locals
  seen       \* history: the calls made in a one-point sketch

vars == <<sketch, followed, pending, ctl, pin, serial, adc, now,
          obs, cand, rawrun, glitch, sampled, alone, permuted, wq, wide, probe,
          sensors, crossingActive, activeDirection, farSensorSeen,
          lastOccupancyActivity, leftLampOn, lastFlashToggle, refreshed, flash,
          sampling, globals, seen>>

\* the variables of the point controllers, and those of the crossing controller
pointVars == <<followed, ctl, obs, cand, rawrun, glitch, sampled, alone, permuted,
               wq, wide, probe>>
crossingVars == <<sensors, crossingActive, activeDirection, farSensorSeen,
                  lastOccupancyActivity, leftLampOn, lastFlashToggle, refreshed, flash,
                  sampling>>

\* history of the crossing controller before the first loop()
NoRefresh ==
  [n |-> 0, westOccupied |-> FALSE, eastOccupied |-> FALSE, wasActive |-> FALSE,
   approach |-> "none", farSeen |-> FALSE, quiet |-> 0]

\* history of the lamps before the first activation of the crossing
NoFlash ==
  [swapped |-> FALSE, gap |-> 0, regular |-> FALSE, at |-> 0, steady |-> FALSE,
   swaps |-> 0, runs |-> 0]

\* a run of samples that find no current is followed for this many samples
DriftSamples == 3

\* x, counted up to cap
CapAt(x, cap) == IF x > cap THEN cap ELSE x

\* history of a sensor before the first updateSensor call
NoSample ==
  [calls |-> 0, read |-> 0, waited |-> 0, idle |-> 0, kept |-> TRUE, raw |-> FALSE,
   held |-> 0, flipped |-> FALSE, changed |-> FALSE, returned |-> FALSE,
   level |-> -1, steady |-> 0, from |-> 0]

\* the crossing controller at reset
CrossingAtReset ==
  /\ sensors = sensorsStatic
  /\ crossingActive = crossingStatic.crossingActive
  /\ activeDirection = crossingStatic.activeDirection
  /\ farSensorSeen = crossingStatic.farSensorSeen
  /\ lastOccupancyActivity = crossingStatic.lastOccupancyActivity
  /\ leftLampOn = crossingStatic.leftLampOn
  /\ lastFlashToggle = crossingStatic.lastFlashToggle
  /\ refreshed = NoRefresh
  /\ flash = NoFlash
  /\ sampling = [i \in {WEST, EAST} |-> NoSample]

\* the variables of the one-point sketches
singleVars == <<globals, seen>>

\* history of a one-point sketch before setup()
NotSeen ==
  [call |-> "none", from |-> -1, powered |-> FALSE, stopped |-> FALSE, stops |-> 0,
   reading |-> -1, since |-> 0, available |-> 0, status |-> 0, printed |-> FALSE,
   again |-> FALSE]

\* no one-point sketch runs
SingleAtReset ==
  /\ globals = <<>>
  /\ seen = NotSeen

Sketches == {"points", "ino"}

Points == 1..POINT_COUNT

RelayPins == {RELAY_LINE1_RIGHT_TO_LEFT, RELAY_LINE2_LEFT_TO_RIGHT, RELAY_Y1_LINE1,
              RELAY_Y1_LINE2, RELAY_Y2_LINE1, RELAY_Y2_LINE2}

\* the sensor levels a run draws from: just below the lower bound, the upper
\* edge of the hysteresis band, just above the upper bound
RawValues ==
  { lowerBoundOf(ANALOG_THRESHOLD, ANALOG_HYSTERESIS) - 1,
    upperBoundOf(ANALOG_THRESHOLD, ANALOG_HYSTERESIS),
    upperBoundOf(ANALOG_THRESHOLD, ANALOG_HYSTERESIS) + 1 }

\* field access, by sketch
Type(i) == ctl[i].type
Cur(i) == ctl[i].currentState
Inst(i) == IF sketch = "ino" THEN ctl[i].lastReading ELSE ctl[i].instantaneousState
LastChanged(i) == IF sketch = "ino" THEN ctl[i].lastDebounceTime ELSE ctl[i].sensor.lastChanged
LastSample(i) == IF sketch = "ino" THEN ctl[i].lastSampleTime ELSE ctl[i].sensor.lastSample
LastAnalog(i) == IF sketch = "ino" THEN ctl[i].lastAnalogValue ELSE ctl[i].sensor.lastAnalog
Reported(i) == IF sketch = "ino" THEN ctl[i].lastStatus ELSE ctl[i].reportedState
Line1(i) == IF sketch = "ino" THEN ctl[i].relayLine1 ELSE ctl[i].relays.line1
Line2(i) == IF sketch = "ino" THEN ctl[i].relayLine2 ELSE ctl[i].relays.line2
Threshold(i) == IF sketch = "ino" THEN ctl[i].analogThreshold ELSE ctl[i].sensor.threshold
Hysteresis(i) == IF sketch = "ino" THEN ctl[i].analogHysteresis ELSE ctl[i].sensor.hysteresis

Min(S) == CHOOSE x \in S : \A y \in S : x <= y

\* the two states of a controller kind: the one read below the band and the
\* one read above it
LowState(type) == IF type = POINT_COACTING THEN CROSSOVER_ACTIVE ELSE ROUTE_LINE1_TO_LINE3
HighState(type) == IF type = POINT_COACTING THEN CROSSOVER_INACTIVE ELSE ROUTE_LINE2_TO_LINE3

\* where a sensor level lies: strictly below lowerBound, inside
\* [lowerBound, upperBound], strictly above upperBound
Side(i, v) ==
  IF v < lowerBoundOf(Threshold(i), Hysteresis(i)) THEN "low"
  ELSE IF v > upperBoundOf(Threshold(i), Hysteresis(i)) THEN "high"
  ELSE "mid"

\* the level v is strictly beyond the bound opposite to accepted state st
Beyond(i, v, st) ==
  \/ st = LowState(Type(i)) /\ Side(i, v) = "high"
  \/ st = HighState(Type(i)) /\ Side(i, v) = "low"

\* ------------------------------------------------------------------------
\* History variables (they record what happened; no operator of the
\* sketches reads them)
\* ------------------------------------------------------------------------

\* what one call, made at t, did to controller i: p and io before, r the
\* call's result; early is whether t is less than SENSOR_SAMPLE_INTERVAL after
\* lastSample, kept whether the call left the controller struct and every
\* pin as they were
Observe(i, call, p, io, r, t) ==
  [ call |-> call,
    reads |-> r.io.reads,
    writes |-> Len(r.io.writes),
    notes |-> Len(r.io.serial) - Len(io.serial),
    from |-> p.currentState,
    levels |-> <<io.pin[Line1(i)], io.pin[Line2(i)]>>,
    early |-> USub(t, IF sketch = "ino" THEN p.lastSampleTime ELSE p.sensor.lastSample)
                < SENSOR_SAMPLE_INTERVAL,
    kept |-> (r.point = p /\ r.io.pin = io.pin) ]

NoCall == [call |-> "none", reads |-> 0, writes |-> 0, notes |-> 0, from |-> -1,
           levels |-> <<NOT_DRIVEN, NOT_DRIVEN>>, early |-> FALSE, kept |-> TRUE]

Inc(n) == IF n < 2 THEN n + 1 ELSE n

\* the run of samples with the same interpretation: state is that
\* interpretation, since the time of the run's first sample, last the time of
\* its latest sample, n the number of its samples (counted up to 2); reading
\* is the interpretation of the sample taken at t (the call made o.reads reads)
CandAfter(c, o, reading, t) ==
  IF o.reads = 0 THEN c
  ELSE IF c.state = reading THEN [c EXCEPT !.n = Inc(@), !.last = t]
  ELSE [state |-> reading, since |-> t, last |-> t, n |-> 1]

\* the run of ticks during which the sensor level stays on one side of the
\* band, for a run that began strictly beyond the bound opposite to the
\* accepted state: side is that side ("none" when the level is in no such
\* run), since the time of its first tick, chg and notes the accepted
\* changes and the notifications of updatePoint during the run, rest whether
\* no candidate was pending when it began
NoRun == [side |-> "none", since |-> 0, rest |-> FALSE, chg |-> 0, notes |-> 0]

RawRunAfter(i, g, o, v, t, curAfter, instBefore) ==
  LET c == IF curAfter # o.from THEN 1 ELSE 0
      m == IF o.notes > 0 THEN 1 ELSE 0
  IN  IF g.side # "none" /\ Side(i, v) = g.side
        THEN [g EXCEPT !.chg = IF c = 1 THEN Inc(@) ELSE @,
                       !.notes = IF m = 1 THEN Inc(@) ELSE @]
      ELSE IF Beyond(i, v, o.from)
        THEN [side |-> Side(i, v), since |-> t, rest |-> (instBefore = o.from),
              chg |-> c, notes |-> m]
      ELSE NoRun

\* a single short excursion of the level: "rest" (level not beyond the
\* opposite bound, no candidate pending), "pulse" (level beyond, in a run
\* that began at rest), "after" (that run ended less than DEBOUNCE_DELAY
\* after it began and the level has not gone beyond since), "accepted" (the
\* accepted state changed during such an excursion or after it), "void"
\* (anything else); g is the phase and run the run before the tick
GlitchAfter(i, g, run, o, v, t, curAfter, instAfter) ==
  LET beyond == Beyond(i, v, o.from)
      changed == curAfter # o.from
      atRest == ~Beyond(i, v, curAfter) /\ curAfter = instAfter
      idle == IF atRest THEN "rest" ELSE "void"
  IN  IF g = "accepted" THEN "accepted"
      ELSE IF g = "rest"
        THEN IF ~beyond THEN idle ELSE IF changed THEN "accepted" ELSE "pulse"
      ELSE IF g = "pulse"
        THEN IF t - run.since >= DEBOUNCE_DELAY
               THEN (IF beyond /\ ~changed THEN "pulse" ELSE idle)
               ELSE IF changed THEN "accepted"
               ELSE IF beyond THEN "pulse" ELSE "after"
      ELSE IF g = "after"
        THEN IF beyond THEN (IF changed THEN idle ELSE "void")
             ELSE IF changed THEN "accepted"
             ELSE IF atRest THEN "rest" ELSE "after"
      ELSE idle

\* the reads of one sensor: short tells whether the latest analogRead came
\* less than SENSOR_SAMPLE_INTERVAL after the read before it, n is the number
\* of reads updatePoint has made (counted up to 2); the call observed as o was
\* made at t, the read before it at time last
SampledAfter(s, last, o, t) ==
  IF o.reads = 0 THEN s
  ELSE [short |-> (t - last < SENSOR_SAMPLE_INTERVAL), n |-> Inc(s.n)]

NoProbe == [done |-> FALSE]

\* the timestamps of the followed controller as they would be without
\* overflow: lastSample and lastChanged are the times, counted from reset,
\* of the assignments the sketch made to its two timestamps; same tells
\* whether the last call took the branches it would take with these
\* timestamps; near whether every call so far came at most
\* 2^32 - (DEBOUNCE_DELAY + SENSOR_SAMPLE_INTERVAL) ms after the call before it
NoWide == [lastSample |-> 0, lastChanged |-> 0, same |-> TRUE, near |-> TRUE]

\* no call is running
NoWrites == [call |-> "none", writes |-> <<>>]

\* the level on the other side of the hysteresis band
Opposite(x) ==
  IF x < lowerBoundOf(ANALOG_THRESHOLD, ANALOG_HYSTERESIS)
    THEN upperBoundOf(ANALOG_THRESHOLD, ANALOG_HYSTERESIS) + 1
  ELSE IF x > upperBoundOf(ANALOG_THRESHOLD, ANALOG_HYSTERESIS)
    THEN lowerBoundOf(ANALOG_THRESHOLD, ANALOG_HYSTERESIS) - 1
  ELSE x

Max(S) == CHOOSE x \in S : \A y \in S : x >= y

\* the levels at the sensor pins of the followed controllers at one reading
\* of millis(): any level for one controller; opposite levels for two
SensorLevels ==
  IF Cardinality(followed) = 1 THEN [followed -> RawValues]
  ELSE {v \in [followed -> RawValues] : v[Max(followed)] = Opposite(v[Min(followed)])}

\* how long a run is followed
Horizon == IF Cardinality(followed) = 1 THEN MaxTime ELSE MaxTimePair

\* ------------------------------------------------------------------------
\* The sketches as a state machine
\* ------------------------------------------------------------------------

Init ==
  /\ sketch \in Sketches
  /\ CrossingAtReset
  /\ SingleAtReset
  /\ followed \in {{i} : i \in Points}
  /\ pending = followed
  /\ ctl = [i \in followed |-> IF sketch = "ino" THEN pointControls[i] ELSE pointControllers[i]]
  /\ pin = [p \in RelayPins |-> NOT_DRIVEN]
  /\ serial = <<>>
  /\ adc = [i \in followed |-> ANALOG_THRESHOLD]
  /\ now = 0
  /\ obs = [i \in followed |-> NoCall]
  /\ cand = [i \in followed |-> [state |-> -1, since |-> 0, last |-> 0, n |-> 0]]
  /\ rawrun = [i \in followed |-> NoRun]
  /\ glitch = [i \in followed |-> "void"]
  /\ sampled = [i \in followed |-> [short |-> FALSE, n |-> 0]]
  /\ alone = <<>>
  /\ permuted = {}
  /\ wq = NoWrites
  /\ wide = NoWide
  /\ probe = NoProbe

\* one iteration of setup()'s for loop: the two safe-default writes and
\* initializePoint
setupPoint(i, io, t, analogValue) ==
  LET io1 == digitalWrite(digitalWrite(io, Line1(i), TRACK_POWER_OFF),
                          Line2(i), TRACK_POWER_OFF)
  IN  IF sketch = "ino"
        THEN initializePointIno(ctl[i], io1, t, analogValue)
        ELSE initializePoint(ctl[i], io1, t, analogValue)

\* controller i run by itself: one iteration of setup()'s for loop
aloneSetup(a, i, t, analogValue) ==
  LET r == setupPoint(i, [pin |-> a.pin, serial |-> a.serial, writes |-> <<>>, reads |-> 0],
                      t, analogValue)
  IN  [point |-> r.point, pin |-> r.io.pin, serial |-> r.io.serial]

Setup ==
  /\ pending # {}
  /\ \E d \in SetupDelays, v \in SensorLevels :
       LET i == Min(pending)
           io == [pin |-> pin, serial |-> serial, writes |-> <<>>, reads |-> 0]
       IN  \E r \in {setupPoint(i, io, now + d, v[i])} :
             /\ now' = now + d
             /\ adc' = v
             /\ ctl' = [ctl EXCEPT ![i] = r.point]
             /\ pin' = r.io.pin
             /\ serial' = r.io.serial
             /\ obs' = [obs EXCEPT ![i] = Observe(i, "initializePoint", ctl[i], io, r, now + d)]
             /\ cand' = [cand EXCEPT ![i] =
                           [state |-> r.point.currentState, since |-> now + d,
                            last |-> now + d, n |-> 1]]
             /\ rawrun' = [rawrun EXCEPT ![i] = NoRun]
             /\ glitch' = [glitch EXCEPT ![i] = "rest"]
             /\ sampled' = [sampled EXCEPT ![i] = [short |-> FALSE, n |-> 0]]
             /\ alone' = IF i \in DOMAIN alone
                            THEN [alone EXCEPT ![i] = aloneSetup(@, i, now + d, v[i])]
                            ELSE alone
             /\ pending' = pending \ {i}
  /\ UNCHANGED crossingVars
  /\ UNCHANGED singleVars
  /\ UNCHANGED <<sketch, followed, permuted, wq, wide, probe>>

updateOf(point, io, t, analogValue) ==
  IF sketch = "ino"
    THEN updatePointIno(point, io, t, analogValue)
    ELSE updatePoint(point, io, t, analogValue)

instOf(point) == IF sketch = "ino" THEN point.lastReading ELSE point.instantaneousState

\* controller i run by itself: updatePoint
aloneUpdate(a, t, analogValue) ==
  LET r == updateOf(a.point, [pin |-> a.pin, serial |-> a.serial, writes |-> <<>>, reads |-> 0],
                    t, analogValue)
  IN  [point |-> r.point, pin |-> r.io.pin, serial |-> r.io.serial]

\* the for loop of loop(): updatePoint on every controller from entry i on,
\* in registration order, all with the same now
RECURSIVE loopFrom(_, _, _, _)
loopFrom(i, st, t, v) ==
  IF i > POINT_COUNT THEN st
  ELSE IF i \notin followed THEN loopFrom(i + 1, st, t, v)
  ELSE
    LET io == [pin |-> st.pin, serial |-> st.serial, writes |-> <<>>, reads |-> 0]
        r == updateOf(st.ctl[i], io, t, v[i])
        o == Observe(i, "updatePoint", st.ctl[i], io, r, t)
        reading == interpretBody(Type(i), Threshold(i), Hysteresis(i), v[i],
                                 st.ctl[i].currentState)
    IN  loopFrom(i + 1,
                 [ ctl |-> [st.ctl EXCEPT ![i] = r.point],
                   pin |-> r.io.pin,
                   serial |-> r.io.serial,
                   obs |-> [st.obs EXCEPT ![i] = o],
                   cand |-> [st.cand EXCEPT ![i] = CandAfter(@, o, reading, t)],
                   rawrun |-> [st.rawrun EXCEPT ![i] =
                                 RawRunAfter(i, @, o, v[i], t, r.point.currentState,
                                             instOf(st.ctl[i]))],
                   glitch |-> [st.glitch EXCEPT ![i] =
                                 GlitchAfter(i, @, st.rawrun[i], o, v[i], t,
                                             r.point.currentState, instOf(r.point))],
                   sampled |-> [st.sampled EXCEPT ![i] = SampledAfter(@, st.cand[i].last, o, t)],
                   alone |-> IF i \in DOMAIN st.alone
                               THEN [st.alone EXCEPT ![i] = aloneUpdate(@, t, v[i])]
                               ELSE st.alone ],
                 t, v)

\* the orders in which the controllers of S can be gone through
Orders(S) ==
  {o \in [1..Cardinality(S) -> S] : \A a, b \in 1..Cardinality(S) : a # b => o[a] # o[b]}

\* the body of loop()'s for loop gone through in the given order from its
\* k-th entry on; hw is the controller structs, the relay pins and Serial
RECURSIVE loopIn(_, _, _, _, _)
loopIn(order, k, hw, t, v) ==
  IF k > Len(order) THEN hw
  ELSE
    LET i == order[k]
        r == updateOf(hw.ctl[i], [pin |-> hw.pin, serial |-> hw.serial,
                                  writes |-> <<>>, reads |-> 0], t, v[i])
    IN  loopIn(order, k + 1,
               [ctl |-> [hw.ctl EXCEPT ![i] = r.point], pin |-> r.io.pin,
                serial |-> r.io.serial],
               t, v)

\* one call of loop(): dt ms after the previous reading of millis(), with the
\* sensor levels v
Loop ==
  /\ pending = {}
  /\ \E dt \in TickSteps, v \in SensorLevels :
       /\ now + dt <= Horizon
       /\ \E st \in {loopFrom(1, [ctl |-> ctl, pin |-> pin, serial |-> serial, obs |-> obs,
                                  cand |-> cand, rawrun |-> rawrun, glitch |-> glitch,
                                  sampled |-> sampled, alone |-> alone],
                              now + dt, v)} :
              /\ now' = now + dt
              /\ adc' = v
              /\ ctl' = st.ctl
              /\ pin' = st.pin
              /\ serial' = st.serial
              /\ obs' = st.obs
              /\ cand' = st.cand
              /\ rawrun' = st.rawrun
              /\ glitch' = st.glitch
              /\ sampled' = st.sampled
              /\ alone' = st.alone
              /\ permuted' = IF Cardinality(followed) = 1 THEN {}
                              ELSE {loopIn(o, 1, [ctl |-> ctl, pin |-> pin, serial |-> serial],
                                           now + dt, v) : o \in Orders(followed)}
  /\ UNCHANGED crossingVars
  /\ UNCHANGED singleVars
  /\ UNCHANGED <<sketch, followed, pending, wq, wide, probe>>

Next == Setup \/ Loop

Spec == Init /\ [][Next]_vars

\* ------------------------------------------------------------------------
\* Two controllers in one loop(): the two Y junctions, fed opposite levels,
\* each also run by itself on the same readings
\* ------------------------------------------------------------------------

Pairs == {{i \in Points : (IF sk = "ino" THEN pointControls[i] ELSE pointControllers[i]).type
                             = POINT_Y_BRANCH} : sk \in Sketches}

InitPair ==
  /\ sketch \in Sketches
  /\ CrossingAtReset
  /\ SingleAtReset
  /\ followed \in Pairs
  /\ pending = followed
  /\ ctl = [i \in followed |-> IF sketch = "ino" THEN pointControls[i] ELSE pointControllers[i]]
  /\ pin = [p \in RelayPins |-> NOT_DRIVEN]
  /\ serial = <<>>
  /\ adc = [i \in followed |-> ANALOG_THRESHOLD]
  /\ now = 0
  /\ obs = [i \in followed |-> NoCall]
  /\ cand = [i \in followed |-> [state |-> -1, since |-> 0, last |-> 0, n |-> 0]]
  /\ rawrun = [i \in followed |-> NoRun]
  /\ glitch = [i \in followed |-> "void"]
  /\ sampled = [i \in followed |-> [short |-> FALSE, n |-> 0]]
  /\ alone = [i \in followed |->
                [point |-> ctl[i], pin |-> [p \in RelayPins |-> NOT_DRIVEN], serial |-> <<>>]]
  /\ permuted = {}
  /\ wq = NoWrites
  /\ wide = NoWide
  /\ probe = NoProbe

SpecPair == InitPair /\ [][Next]_vars

\* ------------------------------------------------------------------------
\* One Y junction, every digitalWrite a step of its own: a call of setup()'s
\* loop body or of loop() runs up to its first digitalWrite, and the writes
\* it makes then reach the relay pins one by one
\* ------------------------------------------------------------------------

YBranches ==
  {i \in Points : (IF sketch = "ino" THEN pointControls[i] ELSE pointControllers[i]).type
                    = POINT_Y_BRANCH}

InitWrites ==
  /\ sketch \in Sketches
  /\ CrossingAtReset
  /\ SingleAtReset
  /\ followed \in {{i} : i \in YBranches}
  /\ pending = followed
  /\ ctl = [i \in followed |-> IF sketch = "ino" THEN pointControls[i] ELSE pointControllers[i]]
  /\ pin = [p \in RelayPins |-> NOT_DRIVEN]
  /\ serial = <<>>
  /\ adc = [i \in followed |-> ANALOG_THRESHOLD]
  /\ now = 0
  /\ obs = [i \in followed |-> NoCall]
  /\ cand = [i \in followed |-> [state |-> -1, since |-> 0, last |-> 0, n |-> 0]]
  /\ rawrun = [i \in followed |-> NoRun]
  /\ glitch = [i \in followed |-> "void"]
  /\ sampled = [i \in followed |-> [short |-> FALSE, n |-> 0]]
  /\ alone = <<>>
  /\ permuted = {}
  /\ wq = NoWrites
  /\ wide = NoWide
  /\ probe = NoProbe

\* one iteration of setup()'s for loop, its relay writes still to be made
SetupBegin ==
  /\ pending # {}
  /\ wq.writes = <<>>
  /\ \E d \in SetupDelays, v \in SensorLevels :
       LET i == Min(pending)
           io == [pin |-> pin, serial |-> serial, writes |-> <<>>, reads |-> 0]
       IN  \E r \in {setupPoint(i, io, now + d, v[i])} :
             /\ now' = now + d
             /\ adc' = v
             /\ ctl' = [ctl EXCEPT ![i] = r.point]
             /\ serial' = r.io.serial
             /\ obs' = [obs EXCEPT ![i] = Observe(i, "initializePoint", ctl[i], io, r, now + d)]
             /\ wq' = [call |-> "setup", writes |-> r.io.writes]
             /\ pending' = pending \ {i}
  /\ UNCHANGED crossingVars
  /\ UNCHANGED singleVars
  /\ UNCHANGED <<sketch, followed, pin, cand, rawrun, glitch, sampled, alone,
                 permuted, wide, probe>>

\* one call of loop() on the followed controller, its relay writes still to
\* be made
LoopBegin ==
  /\ pending = {}
  /\ wq.writes = <<>>
  /\ \E dt \in TickSteps, v \in SensorLevels :
       /\ now + dt <= Horizon
       /\ LET i == Min(followed)
              io == [pin |-> pin, serial |-> serial, writes |-> <<>>, reads |-> 0]
          IN  \E r \in {updateOf(ctl[i], io, now + dt, v[i])} :
                /\ now' = now + dt
                /\ adc' = v
                /\ ctl' = [ctl EXCEPT ![i] = r.point]
                /\ serial' = r.io.serial
                /\ obs' = [obs EXCEPT ![i] = Observe(i, "updatePoint", ctl[i], io, r, now + dt)]
                /\ wq' = [call |-> "loop", writes |-> r.io.writes]
  /\ UNCHANGED crossingVars
  /\ UNCHANGED singleVars
  /\ UNCHANGED <<sketch, followed, pending, pin, cand, rawrun, glitch, sampled, alone,
                 permuted, wide, probe>>

\* the next digitalWrite of the running call
RelayWrite ==
  /\ wq.writes # <<>>
  /\ pin' = [pin EXCEPT ![Head(wq.writes)[1]] = Head(wq.writes)[2]]
  /\ wq' = [wq EXCEPT !.writes = Tail(@)]
  /\ UNCHANGED crossingVars
  /\ UNCHANGED singleVars
  /\ UNCHANGED <<sketch, followed, pending, ctl, serial, adc, now, obs, cand, rawrun,
                 glitch, sampled, alone, permuted, wide, probe>>

NextWrites == SetupBegin \/ LoopBegin \/ RelayWrite

SpecWrites == InitWrites /\ [][NextWrites]_vars

\* ------------------------------------------------------------------------
\* One controller across the overflow of millis(): now is the time since
\* reset, millis() returns it modulo 2^32
\* ------------------------------------------------------------------------

millis(t) == t % ULONG_MODULUS

\* the longest time between two calls that keeps the time since lastSample
\* and since the lastChanged of a pending candidate below the timer period
LongestSafeStep == ULONG_MODULUS - (DEBOUNCE_DELAY + SENSOR_SAMPLE_INTERVAL)

\* the time between two calls of loop(): the steps of a fast loop, and two
\* long stalls just short of the timer period
OverflowTickSteps == TickSteps \cup {LongestSafeStep, ULONG_MODULUS - 5}

InitOverflow == Init

SetupOverflow ==
  /\ pending # {}
  /\ \E d \in SetupDelays, v \in SensorLevels :
       LET i == Min(pending)
           io == [pin |-> pin, serial |-> serial, writes |-> <<>>, reads |-> 0]
       IN  \E r \in {setupPoint(i, io, millis(now + d), v[i])} :
             /\ now' = now + d
             /\ adc' = v
             /\ ctl' = [ctl EXCEPT ![i] = r.point]
             /\ pin' = r.io.pin
             /\ serial' = r.io.serial
             /\ obs' = [obs EXCEPT ![i] = Observe(i, "initializePoint", ctl[i], io, r, millis(now + d))]
             /\ wide' = [lastSample |-> now + d - SENSOR_SAMPLE_INTERVAL,
                         lastChanged |-> now + d, same |-> TRUE, near |-> TRUE]
             /\ pending' = pending \ {i}
  /\ UNCHANGED crossingVars
  /\ UNCHANGED singleVars
  /\ UNCHANGED <<sketch, followed, cand, rawrun, glitch, sampled, alone, permuted,
                 wq, probe>>

\* the timestamps without overflow after one updatePoint on controller i:
\* r is the result of the call, made dt after the call before it at time t
\* since reset, on the level analogValue
WideAfter(w, i, r, dt, t, analogValue) ==
  LET p == ctl[i]
      reading == interpretBody(Type(i), Threshold(i), Hysteresis(i), analogValue,
                               p.currentState)
      wouldSample == t - w.lastSample >= SENSOR_SAMPLE_INTERVAL
      since == IF reading # instOf(p) THEN t ELSE w.lastChanged
      wouldAccept == /\ wouldSample
                     /\ t - since >= DEBOUNCE_DELAY
                     /\ reading # p.currentState
  IN  [ lastSample |-> IF r.io.reads = 1 THEN t ELSE w.lastSample,
        lastChanged |-> IF instOf(r.point) # instOf(p) THEN t ELSE w.lastChanged,
        same |-> /\ (r.io.reads = 1) = wouldSample
                 /\ (r.point.currentState # p.currentState) = wouldAccept,
        near |-> w.near /\ dt <= LongestSafeStep ]

LoopOverflow ==
  /\ pending = {}
  /\ \E dt \in OverflowTickSteps, v \in SensorLevels :
       /\ now + dt <= ULONG_MODULUS + MaxTimePastOverflow
       /\ LET i == Min(followed)
              io == [pin |-> pin, serial |-> serial, writes |-> <<>>, reads |-> 0]
          IN  \E r \in {updateOf(ctl[i], io, millis(now + dt), v[i])} :
                /\ now' = now + dt
                /\ adc' = v
                /\ ctl' = [ctl EXCEPT ![i] = r.point]
                /\ pin' = r.io.pin
                /\ serial' = r.io.serial
                /\ obs' = [obs EXCEPT ![i] = Observe(i, "updatePoint", ctl[i], io, r, millis(now + dt))]
                /\ wide' = WideAfter(wide, i, r, dt, now + dt, v[i])
  /\ UNCHANGED crossingVars
  /\ UNCHANGED singleVars
  /\ UNCHANGED <<sketch, followed, pending, cand, rawrun, glitch, sampled, alone,
                 permuted, wq, probe>>

NextOverflow == SetupOverflow \/ LoopOverflow

SpecOverflow == InitOverflow /\ [][NextOverflow]_vars

\* ------------------------------------------------------------------------
\* One controller in a loop() that is called for ever: millis() runs on
\* modulo ULONG_MODULUS, Serial holds the report of the latest call only, and
\* the history variables are left alone
\* ------------------------------------------------------------------------

\* Time between the millis() readings of two successive loop() calls (ms).
ForeverTickSteps == {10, 25}

\* the controllers followed: the coacting crossover and the first Y junction
\* (the second Y junction differs from the first in its pins only)
ForeverPoints == {1, 2}

InitForever ==
  /\ sketch = "points"
  /\ CrossingAtReset
  /\ SingleAtReset
  /\ followed \in {{i} : i \in ForeverPoints}
  /\ pending = followed
  /\ ctl = [i \in followed |-> pointControllers[i]]
  /\ pin = [p \in RelayPins |-> NOT_DRIVEN]
  /\ serial = <<>>
  /\ adc = [i \in followed |-> ANALOG_THRESHOLD]
  /\ now = 0
  /\ obs = [i \in followed |-> NoCall]
  /\ cand = [i \in followed |-> [state |-> -1, since |-> 0, last |-> 0, n |-> 0]]
  /\ rawrun = [i \in followed |-> NoRun]
  /\ glitch = [i \in followed |-> "void"]
  /\ sampled = [i \in followed |-> [short |-> FALSE, n |-> 0]]
  /\ alone = <<>>
  /\ permuted = {}
  /\ wq = NoWrites
  /\ wide = NoWide
  /\ probe = NoProbe

SetupForever ==
  /\ pending # {}
  /\ \E d \in SetupDelays, v \in SensorLevels :
       LET i == Min(pending)
           io == [pin |-> pin, serial |-> <<>>, writes |-> <<>>, reads |-> 0]
       IN  \E r \in {setupPoint(i, io, millis(now + d), v[i])} :
             /\ now' = millis(now + d)
             /\ adc' = v
             /\ ctl' = [ctl EXCEPT ![i] = r.point]
             /\ pin' = r.io.pin
             /\ serial' = r.io.serial
             /\ pending' = pending \ {i}
  /\ UNCHANGED crossingVars
  /\ UNCHANGED singleVars
  /\ UNCHANGED <<sketch, followed, obs, cand, rawrun, glitch, sampled, alone, permuted,
                 wq, wide, probe>>

LoopForever ==
  /\ pending = {}
  /\ \E dt \in ForeverTickSteps, v \in SensorLevels :
       LET i == Min(followed)
           io == [pin |-> pin, serial |-> <<>>, writes |-> <<>>, reads |-> 0]
       IN  \E r \in {updateOf(ctl[i], io, millis(now + dt), v[i])} :
             /\ now' = millis(now + dt)
             /\ adc' = v
             /\ ctl' = [ctl EXCEPT ![i] = r.point]
             /\ pin' = r.io.pin
             /\ serial' = r.io.serial
  /\ UNCHANGED crossingVars
  /\ UNCHANGED singleVars
  /\ UNCHANGED <<sketch, followed, pending, obs, cand, rawrun, glitch, sampled, alone,
                 permuted, wq, wide, probe>>

NextForever == SetupForever \/ LoopForever

\* loop() is called again, at a later reading of millis(): the steps of
\* LoopForever, which is enabled once setup() has run
LoopCalledAgain ==
  /\ pending = {}
  /\ now' \in {millis(now + dt) : dt \in ForeverTickSteps}

\* setup() runs to its end, and the Arduino core calls loop() again and again
SpecForever ==
  InitForever /\ [][NextForever]_vars /\ WF_vars(SetupForever) /\ WF_now(LoopCalledAgain)

\* ------------------------------------------------------------------------
\* interpretState on its own: one call with arguments drawn from their ranges
\* ------------------------------------------------------------------------

ProbeThresholds == {ANALOG_THRESHOLD, 10, 1015}

\* the hysteresis of the sketches' configuration, and none
ProbeHysteresis == {ANALOG_HYSTERESIS, 0}

InitInterpret ==
  /\ sketch \in Sketches
  /\ CrossingAtReset
  /\ SingleAtReset
  /\ followed = {}
  /\ pending = {}
  /\ ctl = [i \in {} |-> 0]
  /\ pin = [p \in RelayPins |-> NOT_DRIVEN]
  /\ serial = <<>>
  /\ adc = [i \in {} |-> 0]
  /\ now = 0
  /\ obs = [i \in {} |-> 0]
  /\ cand = [i \in {} |-> 0]
  /\ rawrun = [i \in {} |-> 0]
  /\ glitch = [i \in {} |-> 0]
  /\ sampled = [i \in {} |-> 0]
  /\ alone = <<>>
  /\ permuted = {}
  /\ wq = NoWrites
  /\ wide = NoWide
  /\ probe \in [ done : {FALSE}, point : Points, threshold : ProbeThresholds,
                 hysteresis : ProbeHysteresis, analogValue : 0..ADC_MAX,
                 priorState : {0, 1}, result : {-1} ]

\* interpretState of the running sketch on entry k of its array, configured
\* with the given threshold and hysteresis
interpretOf(k, threshold, hysteresis, analogValue, priorState) ==
  IF sketch = "ino"
    THEN interpretStateIno([pointControls[k] EXCEPT !.analogThreshold = threshold,
                                                    !.analogHysteresis = hysteresis],
                           analogValue, priorState)
    ELSE interpretState([pointControllers[k] EXCEPT !.sensor.threshold = threshold,
                                                    !.sensor.hysteresis = hysteresis],
                        analogValue, priorState)

Interpret ==
  /\ probe.done = FALSE
  /\ probe' = [probe EXCEPT !.done = TRUE,
                            !.result = interpretOf(probe.point, probe.threshold,
                                                   probe.hysteresis, probe.analogValue,
                                                   probe.priorState)]
  /\ UNCHANGED crossingVars
  /\ UNCHANGED singleVars
  /\ UNCHANGED <<sketch, followed, pending, ctl, pin, serial, adc, now,
                 obs, cand, rawrun, glitch, sampled, alone, permuted, wq, wide>>

SpecInterpret == InitInterpret /\ [][Interpret]_vars

\* ------------------------------------------------------------------------
\* The bounds interpretState computes, for the configurations the int fields
\* threshold and hysteresis can hold
\* ------------------------------------------------------------------------

ConfigThresholds == (0 - MaxBeyond)..(ADC_MAX + MaxBeyond)

ConfigHysteresis == (0 - MaxBeyond)..MaxHysteresis

InitBounds ==
  /\ sketch \in Sketches
  /\ CrossingAtReset
  /\ SingleAtReset
  /\ followed = {}
  /\ pending = {}
  /\ ctl = [i \in {} |-> 0]
  /\ pin = [p \in RelayPins |-> NOT_DRIVEN]
  /\ serial = <<>>
  /\ adc = [i \in {} |-> 0]
  /\ now = 0
  /\ obs = [i \in {} |-> 0]
  /\ cand = [i \in {} |-> 0]
  /\ rawrun = [i \in {} |-> 0]
  /\ glitch = [i \in {} |-> 0]
  /\ sampled = [i \in {} |-> 0]
  /\ alone = <<>>
  /\ permuted = {}
  /\ wq = NoWrites
  /\ wide = NoWide
  /\ probe \in [ done : {FALSE}, threshold : ConfigThresholds,
                 hysteresis : ConfigHysteresis, lowerBound : {-1}, upperBound : {-1} ]

\* the first two statements of interpretState
ComputeBounds ==
  /\ probe.done = FALSE
  /\ probe' = [probe EXCEPT !.done = TRUE,
                            !.lowerBound = lowerBoundOf(probe.threshold, probe.hysteresis),
                            !.upperBound = upperBoundOf(probe.threshold, probe.hysteresis)]
  /\ UNCHANGED crossingVars
  /\ UNCHANGED singleVars
  /\ UNCHANGED <<sketch, followed, pending, ctl, pin, serial, adc, now,
                 obs, cand, rawrun, glitch, sampled, alone, permuted, wq, wide>>

SpecBounds == InitBounds /\ [][ComputeBounds]_vars

\* ------------------------------------------------------------------------
\* The crossing controller as a state machine
\* ------------------------------------------------------------------------

\* loop() of the crossing controller is followed for this many iterations
MaxLoops == 6

\* the level at a sensor pin with no current in the block, and the levels a
\* run draws from: no current, or a current that moves the level by the
\* occupancy threshold
ZeroCurrentLevel == 512
InputLevels == {ZeroCurrentLevel, ZeroCurrentLevel + OCCUPANCY_THRESHOLD}

LampPins == {LIGHT_LEFT_PIN, LIGHT_RIGHT_PIN}

\* time between the millis() readings of two successive loop() calls (ms)
CrossingTickSteps == {10, 30, 2 * LongStep}

\* the same for a loop() followed without end
LongSteps == {LongStep, 2 * LongStep}

\* the time calibrateSensors spends on one sensor: delay(2) per sample
CalibrationMs == CALIBRATION_SAMPLES * 2

\* the time without occupancy is counted up to this
QuietCap == RELEASE_TIMEOUT_MS + 2 * LongStep

crossingGlobals ==
  [ crossingActive |-> crossingActive,
    activeDirection |-> activeDirection,
    farSensorSeen |-> farSensorSeen,
    lastOccupancyActivity |-> lastOccupancyActivity,
    leftLampOn |-> leftLampOn,
    lastFlashToggle |-> lastFlashToggle ]

InitCrossing ==
  /\ sketch = "crossing"
  /\ followed = {}
  /\ pending = {WEST, EAST}
  /\ ctl = <<>>
  /\ pin = [p \in LampPins |-> NOT_DRIVEN]
  /\ serial = <<>>
  /\ adc = [i \in {WEST, EAST} |-> ZeroCurrentLevel]
  /\ now = 0
  /\ obs = <<>>
  /\ cand = <<>>
  /\ rawrun = <<>>
  /\ glitch = <<>>
  /\ sampled = <<>>
  /\ alone = <<>>
  /\ permuted = {}
  /\ wq = NoWrites
  /\ wide = NoWide
  /\ probe = NoProbe
  /\ CrossingAtReset
  /\ SingleAtReset

\* setup(): both lamps off, then calibrateSensors, which is run with no
\* current in the blocks ("zero-current calibration")
SetupCrossing ==
  /\ sketch = "crossing"
  /\ pending # {}
  /\ \E v \in {[i \in {WEST, EAST} |-> ZeroCurrentLevel]} :
       LET io0 == digitalWrite(
                    digitalWrite([pin |-> pin, serial |-> <<>>, writes |-> <<>>, reads |-> 0],
                                 LIGHT_LEFT_PIN, LIGHT_INACTIVE_STATE),
                    LIGHT_RIGHT_PIN, LIGHT_INACTIVE_STATE)
           w == calibrateSensor(sensors[WEST], io0, (now + CalibrationMs) % CrossingTimerPeriod,
                                v[WEST])
           e == calibrateSensor(sensors[EAST], w.io,
                                (now + 2 * CalibrationMs) % CrossingTimerPeriod, v[EAST])
       IN  /\ sensors' = [sensors EXCEPT ![WEST] = w.sensor, ![EAST] = e.sensor]
           /\ pin' = e.io.pin
           /\ serial' = Append(e.io.serial, <<"Railway crossing controller ready.">>)
           /\ adc' = v
           /\ now' = (now + 2 * CalibrationMs) % CrossingTimerPeriod
  /\ pending' = {}
  /\ UNCHANGED <<sketch, crossingActive, activeDirection, farSensorSeen,
                 lastOccupancyActivity, leftLampOn, lastFlashToggle, refreshed, flash>>
  /\ sampling' = [i \in {WEST, EAST} |->
                    [NoSample EXCEPT !.idle = CapAt(IF i = WEST THEN CalibrationMs ELSE 0,
                                                    SENSOR_SAMPLE_INTERVAL_MS),
                                     !.held = CapAt(IF i = WEST THEN CalibrationMs ELSE 0,
                                                    SENSOR_DEBOUNCE_MS)]]
  /\ UNCHANGED pointVars
  /\ UNCHANGED singleVars

\* history: the refreshCrossingState call of the last loop(), and what has
\* been seen since the crossing was activated.  approach is the side whose
\* sensor was occupied in the activating call (west when both were), farSeen
\* whether the other side's sensor was occupied in that call or a later one,
\* quiet the time since the last call with a sensor occupied.
RefreshedAfter(h, wasActive, r, dt, counted) ==
  LET west == r.westOccupied
      east == r.eastOccupied
      approach == IF wasActive THEN h.approach
                  ELSE IF west THEN "west" ELSE IF east THEN "east" ELSE "none"
      far == (approach = "west" /\ east) \/ (approach = "east" /\ west)
      idle == ~wasActive /\ ~r.g.crossingActive
  IN  [n |-> IF counted THEN h.n + 1 ELSE h.n,
       westOccupied |-> west,
       eastOccupied |-> east,
       wasActive |-> wasActive,
       approach |-> approach,
       farSeen |-> IF wasActive THEN h.farSeen \/ far ELSE far,
       quiet |-> IF west \/ east \/ idle THEN 0
                 ELSE IF h.quiet + dt > QuietCap THEN QuietCap ELSE h.quiet + dt]

\* history: what the updateSensor call made at t, dt ms after the loop()
\* before it, did to the sensor record s, the level at the pin being v.
\* read is the number of analogRead calls it made, waited the time from the
\* previous read of the sensor (the end of its calibration at first) to the
\* call, idle that time after the call (both counted up to
\* SENSOR_SAMPLE_INTERVAL_MS); kept tells whether the record was left as it
\* was, returned is the value returned; raw is the raw occupancy of the
\* latest sample, held the time for which every sample has shown it (counted
\* up to SENSOR_DEBOUNCE_MS), flipped whether the sample of this call
\* differed from the one before, changed whether the call changed occupied;
\* level is the level of the latest sample, steady the number of samples in
\* a row that read that level and found no current (counted up to
\* DriftSamples), from the baseline before the first of them.
SampleAfter(h, s, t, dt, v) ==
  LET r == updateSensor(s, [pin |-> <<>>, serial |-> <<>>, writes |-> <<>>, reads |-> 0],
                        t, v)
      read == r.io.reads
      waited == CapAt(h.idle + dt, SENSOR_SAMPLE_INTERVAL_MS)
      rawNow == abs(v - s.baseline) >= s.threshold
      flippedNow == read > 0 /\ rawNow # h.raw
      goesOn == ~rawNow /\ v = h.level /\ h.steady > 0
  IN  [calls |-> CapAt(h.calls + 1, 2),
       read |-> read,
       waited |-> waited,
       idle |-> IF read > 0 THEN 0 ELSE waited,
       kept |-> r.sensor = s,
       returned |-> r.occupied,
       raw |-> IF read > 0 THEN rawNow ELSE h.raw,
       held |-> IF flippedNow THEN 0 ELSE CapAt(h.held + dt, SENSOR_DEBOUNCE_MS),
       flipped |-> flippedNow,
       changed |-> r.sensor.occupied # s.occupied,
       level |-> IF read > 0 THEN v ELSE h.level,
       steady |-> IF read = 0 THEN h.steady
                  ELSE IF rawNow THEN 0
                  ELSE IF goesOn THEN CapAt(h.steady + 1, DriftSamples) ELSE 1,
       from |-> IF read = 0 \/ goesOn THEN h.from
                ELSE IF rawNow THEN 0 ELSE s.baseline]

\* the two lamp outputs, and whether exactly one of them is lit
Lamps(p) == <<p[LIGHT_LEFT_PIN], p[LIGHT_RIGHT_PIN]>>
OneLit(l) == l \in {<<LIGHT_ACTIVE_STATE, LIGHT_INACTIVE_STATE>>,
                    <<LIGHT_INACTIVE_STATE, LIGHT_ACTIVE_STATE>>}

\* history: what the loop() called at t, dt ms after the call before it, did
\* to the lamps.  swapped tells whether the call found one lamp lit and left
\* the other one lit, gap the time from the previous swap or activation (at)
\* to a call that swapped, regular whether every call from then to a call
\* that swapped came 1 ms after the call before it, swaps the number of swaps
\* since the activation and runs the number of activations (both counted up
\* to 2).
FlashAfter(h, wasActive, before, r, t, dt) ==
  LET swappedNow == /\ OneLit(Lamps(before))
                    /\ OneLit(Lamps(r.io.pin))
                    /\ Lamps(r.io.pin) # Lamps(before)
      activatedNow == ~wasActive /\ r.g.crossingActive
  IN  IF ~r.g.crossingActive THEN [NoFlash EXCEPT !.runs = h.runs]
      ELSE [swapped |-> swappedNow,
            gap |-> IF swappedNow THEN ElapsedMs(t, h.at) ELSE 0,
            regular |-> swappedNow /\ h.steady /\ dt = 1,
            at |-> IF swappedNow \/ activatedNow THEN t ELSE h.at,
            steady |-> IF swappedNow \/ activatedNow THEN TRUE ELSE h.steady /\ dt = 1,
            swaps |-> IF activatedNow THEN 0
                      ELSE IF swappedNow /\ h.swaps < 2 THEN h.swaps + 1 ELSE h.swaps,
            runs |-> IF activatedNow /\ h.runs < 2 THEN h.runs + 1 ELSE h.runs]

\* one call of loop(): dt ms after the previous reading of millis(), with the
\* levels v at the sensor pins
loopAfter(dt, v, counted) ==
  \E t \in {(now + dt) % CrossingTimerPeriod} :
    \E r \in {loopCrossing(sensors, crossingGlobals,
                           [pin |-> pin, serial |-> <<>>, writes |-> <<>>, reads |-> 0], t, v)} :
      /\ now' = t
      /\ adc' = v
      /\ sensors' = r.sensors
      /\ crossingActive' = r.g.crossingActive
      /\ activeDirection' = r.g.activeDirection
      /\ farSensorSeen' = r.g.farSensorSeen
      /\ lastOccupancyActivity' = r.g.lastOccupancyActivity
      /\ leftLampOn' = r.g.leftLampOn
      /\ lastFlashToggle' = r.g.lastFlashToggle
      /\ pin' = r.io.pin
      /\ serial' = r.io.serial
      /\ refreshed' = RefreshedAfter(refreshed, crossingActive, r, dt, counted)
      /\ flash' = FlashAfter(flash, crossingActive, pin, r, t, dt)
      /\ sampling' = [i \in {WEST, EAST} |-> SampleAfter(sampling[i], sensors[i], t, dt, v[i])]

LoopCrossing ==
  /\ sketch = "crossing"
  /\ pending = {}
  /\ refreshed.n < MaxLoops
  /\ \E dt \in CrossingTickSteps, v \in [{WEST, EAST} -> InputLevels] : loopAfter(dt, v, TRUE)
  /\ UNCHANGED <<sketch, pending>>
  /\ UNCHANGED pointVars
  /\ UNCHANGED singleVars

NextCrossing == SetupCrossing \/ LoopCrossing

SpecCrossing == InitCrossing /\ [][NextCrossing]_vars

\* loop() called without end, LongStep or two LongSteps after the previous call
LoopCrossingForever ==
  /\ sketch = "crossing"
  /\ pending = {}
  /\ \E dt \in LongSteps, v \in [{WEST, EAST} -> InputLevels] : loopAfter(dt, v, FALSE)
  /\ UNCHANGED <<sketch, pending>>
  /\ UNCHANGED pointVars
  /\ UNCHANGED singleVars

NextCrossingForever == SetupCrossing \/ LoopCrossingForever

\* loop() is called once more: what tells a step of LoopCrossingForever from
\* the other steps
LoopCalled ==
  /\ pending = {}
  /\ now' \in {(now + dt) % CrossingTimerPeriod : dt \in LongSteps}

\* setup() returns, and the Arduino core calls loop() again whenever it
\* returns
SpecCrossingForever ==
  /\ InitCrossing
  /\ [][NextCrossingForever]_vars
  /\ WF_vars(SetupCrossing)
  /\ WF_now(LoopCalled)

\* the same with levels that differ from the zero-current level by less
\* than the occupancy threshold: Drift below and above it, and one short of
\* the threshold; both sensors read the same level
Drift == 8
DriftLevels ==
  {ZeroCurrentLevel - Drift, ZeroCurrentLevel + Drift,
   ZeroCurrentLevel + OCCUPANCY_THRESHOLD - 1, ZeroCurrentLevel + OCCUPANCY_THRESHOLD}

LoopCrossingDrift ==
  /\ sketch = "crossing"
  /\ pending = {}
  /\ \E l \in DriftLevels : loopAfter(LongStep, [i \in {WEST, EAST} |-> l], FALSE)
  /\ UNCHANGED <<sketch, pending>>
  /\ UNCHANGED pointVars
  /\ UNCHANGED singleVars

NextCrossingDrift == SetupCrossing \/ LoopCrossingDrift

SpecCrossingDrift == InitCrossing /\ [][NextCrossingDrift]_vars

\* loop() called every millisecond, for FlashWatchMs ms from the end of
\* setup(); the level at the sensor pins changes at most once in LevelHoldMs
\* ms
FlashWatchMs == 1600
LevelHoldMs == 200
MsLevels == [{WEST, EAST} -> InputLevels]

LoopCrossingMs ==
  /\ sketch = "crossing"
  /\ pending = {}
  /\ now < 2 * CalibrationMs + FlashWatchMs
  /\ \E v \in MsLevels :
       /\ (now - 2 * CalibrationMs) % LevelHoldMs # 0 => v = adc
       /\ loopAfter(1, v, FALSE)
  /\ UNCHANGED <<sketch, pending>>
  /\ UNCHANGED pointVars
  /\ UNCHANGED singleVars

NextCrossingMs == SetupCrossing \/ LoopCrossingMs

SpecCrossingMs == InitCrossing /\ [][NextCrossingMs]_vars

\* ------------------------------------------------------------------------
\* The one-point sketches as a state machine
\* ------------------------------------------------------------------------

SingleSketches == {"binary", "coacting"}

\* millis() at the end of setup() (ms)
SingleSetupDelays == {0, 30, 60}

\* time from one loop() to the next: delay(10) and the time loop() takes (ms)
SingleTickSteps == {10, 12}

\* emergencyStop() is called at most this many times in a run
MaxStops == 1

\* the pins the sketch drives
SinglePins ==
  IF sketch = "binary"
    THEN {RELAY_LINE1_RIGHT_TO_LEFT, RELAY_LINE2_LEFT_TO_RIGHT, LED_LINE1_BLOCKED,
          LED_LINE2_BLOCKED, LED_POINTS_POSITION}
    ELSE {RELAY_LINE1_RIGHT_TO_LEFT, RELAY_LINE2_LEFT_TO_RIGHT}

\* the levels at the sensor pin a run draws from: the two digital levels, or
\* the analog levels just below and at the threshold
SingleLevels ==
  IF sketch = "binary" THEN {LOW, HIGH} ELSE {ANALOG_THRESHOLD - 1, ANALOG_THRESHOLD}

\* what the sketch makes of a level: the digital level itself, or the
\* comparison with the threshold
SingleReading(v) == IF sketch = "binary" THEN v ELSE crossoverReading(v)

\* currentPointsPosition / currentCrossoverState
CurrentOf(g) ==
  IF sketch = "binary" THEN g.currentPointsPosition ELSE g.currentCrossoverState

InitSingle ==
  /\ sketch \in SingleSketches
  /\ followed = {}
  /\ pending = {"setup"}
  /\ ctl = <<>>
  /\ pin = [p \in SinglePins |-> NOT_DRIVEN]
  /\ serial = <<>>
  /\ adc \in SingleLevels
  /\ now = 0
  /\ obs = <<>>
  /\ cand = <<>>
  /\ rawrun = <<>>
  /\ glitch = <<>>
  /\ sampled = <<>>
  /\ alone = <<>>
  /\ permuted = {}
  /\ wq = NoWrites
  /\ wide = NoWide
  /\ probe = NoProbe
  /\ CrossingAtReset
  /\ globals = IF sketch = "binary" THEN binaryStatic ELSE coactingStatic
  /\ seen = NotSeen

setupOf(g, io, v) ==
  IF sketch = "binary" THEN setupBinary(g, io, v) ELSE setupCoacting(g, io, v)

\* setup(), which reads the sensor d ms after the reset
SetupSingle ==
  /\ sketch \in SingleSketches
  /\ pending # {}
  /\ \E d \in SingleSetupDelays :
       \E r \in {setupOf(globals, [pin |-> pin, serial |-> serial, writes |-> <<>>,
                                   reads |-> 0], adc)} :
         /\ now' = now + d
         /\ globals' = r.g
         /\ pin' = r.io.pin
         /\ serial' = r.io.serial
         /\ seen' = [seen EXCEPT !.call = "setup", !.from = CurrentOf(globals),
                                 !.reading = SingleReading(adc), !.since = now + d]
  /\ pending' = {}
  /\ UNCHANGED <<sketch, adc>>
  /\ UNCHANGED pointVars
  /\ UNCHANGED crossingVars

\* the body of loop() up to delay(10): the sensor read and controlTrackPower
loopSingle(g, io, t, v, available) ==
  IF sketch = "binary"
    THEN LET r == readPointsPosition(g, io, t, v)
         IN  controlTrackPower(r.g, r.io, available)
    ELSE LET r == readCrossoverState(g, io, t, v)
         IN  controlTrackPowerCoacting(r.g, r.io)

\* the status lines controlTrackPower prints
StatusLines ==
  {"Status: Line 1 OPEN | Line 2 BLOCKED", "Status: Line 1 BLOCKED | Line 2 OPEN",
   "Status: BOTH LINES BLOCKED", "Status: BOTH LINES FREE"}

\* how many status lines a call added to the serial output
StatusPrinted(before, after) ==
  Cardinality({k \in (Len(before) + 1)..Len(after) : after[k] \in StatusLines})

\* one call of loop(): dt ms after the previous one, the sensor pin at the
\* level v and Serial.available() returning a
LoopSingle ==
  /\ sketch \in SingleSketches
  /\ pending = {}
  /\ \E dt \in SingleTickSteps, v \in SingleLevels,
        a \in IF sketch = "binary" THEN {0, 1} ELSE {0} :
       /\ now + dt <= MaxTime
       /\ \E r \in {loopSingle(globals, [pin |-> pin, serial |-> serial, writes |-> <<>>,
                                         reads |-> 0], now + dt, v, a)} :
            /\ now' = now + dt
            /\ adc' = v
            /\ globals' = r.g
            /\ pin' = r.io.pin
            /\ serial' = r.io.serial
            /\ seen' = [seen EXCEPT !.call = "loop", !.from = CurrentOf(globals),
                                    !.powered = TRUE,
                                    !.reading = SingleReading(v),
                                    !.since = IF SingleReading(v) = seen.reading
                                                THEN seen.since ELSE now + dt,
                                    !.available = a,
                                    !.status = StatusPrinted(serial, r.io.serial),
                                    !.again = /\ CurrentOf(r.g) = CurrentOf(globals)
                                              /\ seen.printed
                                              /\ StatusPrinted(serial, r.io.serial) > 0,
                                    !.printed =
                                      \/ StatusPrinted(serial, r.io.serial) > 0
                                      \/ /\ CurrentOf(r.g) = CurrentOf(globals)
                                         /\ seen.printed]
  /\ UNCHANGED <<sketch, pending>>
  /\ UNCHANGED pointVars
  /\ UNCHANGED crossingVars

NextSingle == SetupSingle \/ LoopSingle

SpecSingle == InitSingle /\ [][NextSingle]_vars

\* emergencyStop() and resumeOperation() are called by no function of the
\* sketches: here they are called between two loop() iterations
emergencyStopOf(g, io) ==
  IF sketch = "binary" THEN emergencyStop(g, io) ELSE emergencyStopCoacting(g, io)

resumeOperationOf(g, io, available) ==
  IF sketch = "binary" THEN resumeOperation(g, io, available)
                       ELSE resumeOperationCoacting(g, io)

EmergencyStopSingle ==
  /\ sketch \in SingleSketches
  /\ pending = {}
  /\ ~seen.stopped
  /\ seen.stops < MaxStops
  /\ \E r \in {emergencyStopOf(globals, [pin |-> pin, serial |-> serial, writes |-> <<>>,
                                         reads |-> 0])} :
       /\ globals' = r.g
       /\ pin' = r.io.pin
       /\ serial' = r.io.serial
       /\ seen' = [seen EXCEPT !.call = "emergencyStop", !.from = CurrentOf(globals),
                               !.stopped = TRUE, !.stops = @ + 1, !.status = 0,
                               !.again = FALSE]
  /\ UNCHANGED <<sketch, pending, adc, now>>
  /\ UNCHANGED pointVars
  /\ UNCHANGED crossingVars

ResumeSingle ==
  /\ sketch \in SingleSketches
  /\ pending = {}
  /\ seen.stopped
  /\ \E a \in IF sketch = "binary" THEN {0, 1} ELSE {0} :
       \E r \in {resumeOperationOf(globals, [pin |-> pin, serial |-> serial,
                                             writes |-> <<>>, reads |-> 0], a)} :
         /\ globals' = r.g
         /\ pin' = r.io.pin
         /\ serial' = r.io.serial
         /\ seen' = [seen EXCEPT !.call = "resumeOperation", !.from = CurrentOf(globals),
                                 !.powered = TRUE, !.stopped = FALSE, !.available = a,
                                 !.status = StatusPrinted(serial, r.io.serial),
                                 !.again = seen.printed
                                           /\ StatusPrinted(serial, r.io.serial) > 0,
                                 !.printed = seen.printed
                                             \/ StatusPrinted(serial, r.io.serial) > 0]
  /\ UNCHANGED <<sketch, pending, adc, now>>
  /\ UNCHANGED pointVars
  /\ UNCHANGED crossingVars

NextSingleStop == SetupSingle \/ LoopSingle \/ EmergencyStopSingle \/ ResumeSingle

SpecSingleStop == InitSingle /\ [][NextSingleStop]_vars

\* ------------------------------------------------------------------------
\* Properties
\* ------------------------------------------------------------------------

Initialized == followed \ pending

\* the last call on controller i was an updatePoint that changed currentState
Changed(i) == obs[i].call = "updatePoint" /\ Cur(i) # obs[i].from

\* the levels of controller i's two relay outputs
Levels(i) == <<pin[Line1(i)], pin[Line2(i)]>>

\* the relay levels the documentation gives for accepted state st
Mapping(type, st) ==
  IF type = POINT_COACTING
    THEN IF st = CROSSOVER_ACTIVE THEN <<TRACK_POWER_OFF, TRACK_POWER_OFF>>
                                  ELSE <<TRACK_POWER_ON, TRACK_POWER_ON>>
    ELSE IF st = ROUTE_LINE1_TO_LINE3 THEN <<TRACK_POWER_ON, TRACK_POWER_OFF>>
                                      ELSE <<TRACK_POWER_OFF, TRACK_POWER_ON>>

\* C1: after initializePoint and after every updatePoint call a Y-branch
\* controller has exactly one relay output at TRACK_POWER_ON: relayLine1 when
\* currentState is ROUTE_LINE1_TO_LINE3, relayLine2 when it is
\* ROUTE_LINE2_TO_LINE3.
C1_YBranchExactlyOnePowered ==
  \A i \in Initialized :
    Type(i) = POINT_Y_BRANCH =>
      /\ Cur(i) \in {ROUTE_LINE1_TO_LINE3, ROUTE_LINE2_TO_LINE3}
      /\ (pin[Line1(i)] = TRACK_POWER_ON) <=> (Cur(i) = ROUTE_LINE1_TO_LINE3)
      /\ (pin[Line2(i)] = TRACK_POWER_ON) <=> (Cur(i) = ROUTE_LINE2_TO_LINE3)
      /\ Cardinality({k \in 1..2 : Levels(i)[k] = TRACK_POWER_ON}) = 1
      /\ Cardinality({k \in 1..2 : Levels(i)[k] = TRACK_POWER_OFF}) = 1

\* a Y-branch controller that updatePoint has just switched to Line 2
C1_Witness ==
  \E i \in Initialized :
    /\ Type(i) = POINT_Y_BRANCH
    /\ Changed(i)
    /\ Cur(i) = ROUTE_LINE2_TO_LINE3
    /\ Levels(i) = <<TRACK_POWER_OFF, TRACK_POWER_ON>>

\* C2: after initializePoint and after every updatePoint call a coacting
\* controller has both relay outputs at TRACK_POWER_OFF when currentState is
\* CROSSOVER_ACTIVE and both at TRACK_POWER_ON when it is CROSSOVER_INACTIVE;
\* exactly one powered relay is never observed.
C2_CoactingBothOrNone ==
  \A i \in Initialized :
    Type(i) = POINT_COACTING =>
      /\ Cur(i) = CROSSOVER_ACTIVE => Levels(i) = <<TRACK_POWER_OFF, TRACK_POWER_OFF>>
      /\ Cur(i) = CROSSOVER_INACTIVE => Levels(i) = <<TRACK_POWER_ON, TRACK_POWER_ON>>
      /\ Cur(i) \in {CROSSOVER_ACTIVE, CROSSOVER_INACTIVE}
      /\ Cardinality({k \in 1..2 : Levels(i)[k] = TRACK_POWER_ON}) # 1

\* a coacting controller that updatePoint has just freed
C2_Witness ==
  \E i \in Initialized :
    /\ Type(i) = POINT_COACTING
    /\ Changed(i)
    /\ Cur(i) = CROSSOVER_INACTIVE
    /\ Levels(i) = <<TRACK_POWER_ON, TRACK_POWER_ON>>

\* C3: interpretState is a two-state hysteresis comparator: a raw value
\* strictly below lowerBound gives the low state and one strictly above
\* upperBound the high state, whatever priorState is; a raw value in
\* [lowerBound, upperBound] gives priorState.
C3_HysteresisComparator ==
  probe.done =>
    LET type == pointControllers[probe.point].type
        lowerBound == lowerBoundOf(probe.threshold, probe.hysteresis)
        upperBound == upperBoundOf(probe.threshold, probe.hysteresis)
    IN  /\ probe.analogValue < lowerBound => probe.result = LowState(type)
        /\ probe.analogValue > upperBound => probe.result = HighState(type)
        /\ (lowerBound <= probe.analogValue /\ probe.analogValue <= upperBound)
             => probe.result = probe.priorState

\* a call on the upper edge of the band that keeps the low prior state
C3_Witness ==
  /\ probe.done
  /\ probe.analogValue = upperBoundOf(probe.threshold, probe.hysteresis)
  /\ probe.priorState = LowState(pointControllers[probe.point].type)
  /\ probe.result = probe.priorState

\* the state read on one side of the band
StateOfSide(type, side) == IF side = "high" THEN HighState(type) ELSE LowState(type)

\* the notifications of controller i, in the order printed
Log(i) == SelectSeq(serial, LAMBDA m : m.label = ctl[i].label)

\* C4: whenever updatePoint changes currentState to s at time now, every
\* sample taken since lastChanged was interpreted as s and
\* now - lastChanged >= DEBOUNCE_DELAY; the change is never made on the sample
\* at which the candidate first differs from the accepted state.
C4_ChangeOnlyAfterStableRun ==
  \A i \in Initialized :
    Changed(i) =>
      /\ cand[i].state = Cur(i)
      /\ cand[i].since <= LastChanged(i)
      /\ USub(now, LastChanged(i)) >= DEBOUNCE_DELAY
      /\ cand[i].n >= 2

\* an accepted change made exactly DEBOUNCE_DELAY after the candidate appeared
C4_Witness ==
  \E i \in Initialized :
    /\ Changed(i)
    /\ USub(now, LastChanged(i)) = DEBOUNCE_DELAY
    /\ cand[i].since = LastChanged(i)

\* C5: a single excursion of the raw reading beyond the opposite bound that
\* begins with no candidate pending and ends less than DEBOUNCE_DELAY later
\* changes nothing: during it and after it (while the reading stays back)
\* currentState does not change, no relay output changes level and no
\* notification is emitted, whatever the tick schedule.
C5_ShortPulseIgnored ==
  \A i \in Initialized :
    /\ glitch[i] # "accepted"
    /\ (\/ glitch[i] = "pulse" /\ now - rawrun[i].since < DEBOUNCE_DELAY
        \/ glitch[i] = "after")
       => /\ obs[i].call = "updatePoint"
          /\ Cur(i) = obs[i].from
          /\ Levels(i) = obs[i].levels
          /\ obs[i].notes = 0

\* the pulse is over, a sample taken during it left a candidate pending
C5_Witness ==
  \E i \in Initialized :
    /\ glitch[i] = "after"
    /\ Inst(i) # Cur(i)
    /\ obs[i].reads = 0

\* C6 as stated: currentState changes only when the raw input has stayed
\* beyond the opposite bound on every tick of a continuous DEBOUNCE_DELAY,
\* the ticks updatePoint skips included.
C6_AsStated ==
  \A i \in Initialized :
    Changed(i) => /\ rawrun[i].side # "none"
                  /\ now - rawrun[i].since >= DEBOUNCE_DELAY

\* C6 amended: currentState changes only when the samples updatePoint took
\* have been beyond the opposite bound for a continuous DEBOUNCE_DELAY: the
\* run of equally interpreted samples is at least DEBOUNCE_DELAY old and the
\* level is beyond the bound in the call that makes the change.  A return of
\* the level between two samples is not seen and restarts nothing.
C6_ChangeNeedsStableSamples ==
  \A i \in Initialized :
    Changed(i) =>
      /\ cand[i].state = Cur(i)
      /\ cand[i].state # obs[i].from
      /\ cand[i].last = now
      /\ now - cand[i].since >= DEBOUNCE_DELAY
      /\ Beyond(i, adc[i], obs[i].from)

\* an accepted change although the level was back inside the band on a
\* skipped tick less than DEBOUNCE_DELAY ago
C6_Witness ==
  \E i \in Initialized :
    /\ Changed(i)
    /\ rawrun[i].side # "none"
    /\ now - rawrun[i].since < DEBOUNCE_DELAY

\* C7 as stated: once the raw reading has been above upperBound for
\* DEBOUNCE_DELAY, starting from the low accepted state, currentState has
\* changed to the high state exactly once, with exactly one notification, and
\* the relay outputs equal the high state's mapping.
C7_AsStated ==
  \A i \in Initialized :
    (rawrun[i].side = "high" /\ now - rawrun[i].since >= DEBOUNCE_DELAY)
    => /\ rawrun[i].chg = 1
       /\ rawrun[i].notes = 1
       /\ Cur(i) = HighState(Type(i))
       /\ Levels(i) = Mapping(Type(i), HighState(Type(i)))

\* C7 amended: while the raw reading stays above upperBound, starting from
\* the low accepted state, currentState changes at most once; it has changed
\* as soon as a sample is taken at least DEBOUNCE_DELAY after the first sample
\* of the run of samples read above (not DEBOUNCE_DELAY after the reading
\* moved); exactly one notification is emitted for the change, the relay
\* outputs equal the high state's mapping from that call on, and until then
\* the accepted state and the relay outputs stay those of the low state.
C7_AcceptedExactlyOnce ==
  \A i \in Initialized :
    rawrun[i].side = "high" =>
      /\ rawrun[i].chg <= 1
      /\ rawrun[i].notes = rawrun[i].chg
      /\ rawrun[i].chg = 1 =>
           /\ Cur(i) = HighState(Type(i))
           /\ Levels(i) = Mapping(Type(i), HighState(Type(i)))
      /\ rawrun[i].chg = 0 =>
           /\ Cur(i) = LowState(Type(i))
           /\ Levels(i) = Mapping(Type(i), LowState(Type(i)))
      /\ (/\ cand[i].state = HighState(Type(i))
          /\ cand[i].last - cand[i].since >= DEBOUNCE_DELAY) => rawrun[i].chg = 1

\* the reading is still above, the change was made in an earlier call and
\* this sampled call changed nothing
C7_Witness ==
  \E i \in Initialized :
    /\ rawrun[i].side = "high"
    /\ rawrun[i].chg = 1
    /\ obs[i].reads = 1
    /\ Cur(i) = obs[i].from
    /\ obs[i].notes = 0

\* C8 as stated: when the raw value goes past the opposite bound at t0 (no
\* candidate pending) and stays there, currentState changes on the first tick
\* whose timestamp is >= t0 + DEBOUNCE_DELAY: after every tick of the run the
\* change has been made iff the tick's timestamp has reached
\* t0 + DEBOUNCE_DELAY.
C8_AsStated ==
  \A i \in Initialized :
    (rawrun[i].side # "none" /\ rawrun[i].rest) =>
      (rawrun[i].chg >= 1 <=> now - rawrun[i].since >= DEBOUNCE_DELAY)

\* C8 amended: when the raw value goes past the opposite bound (no candidate
\* pending) and stays there, currentState changes, and the relays are
\* switched, in the first call that takes a sample at a timestamp
\* >= ts + DEBOUNCE_DELAY, where ts >= t0 is the timestamp of the first sample
\* that read the value past the bound; the change is never made before
\* t0 + DEBOUNCE_DELAY, and it lags that deadline by ts - t0 plus the wait for
\* the next sampled call.
C8_ChangeAtFirstSampleAfterDelay ==
  \A i \in Initialized :
    (rawrun[i].side # "none" /\ rawrun[i].rest) =>
      LET s == StateOfSide(Type(i), rawrun[i].side)
      IN  /\ rawrun[i].chg >= 1 <=>
                (cand[i].state = s /\ cand[i].last - cand[i].since >= DEBOUNCE_DELAY)
          /\ rawrun[i].chg >= 1 =>
                /\ now - rawrun[i].since >= DEBOUNCE_DELAY
                /\ Cur(i) = s
                /\ Levels(i) = Mapping(Type(i), s)
          /\ cand[i].state = s => cand[i].since >= rawrun[i].since
          /\ Changed(i) => obs[i].reads = 1

\* the change is made in a call later than t0 + DEBOUNCE_DELAY, a tick at or
\* after the deadline having passed without it
C8_Witness ==
  \E i \in Initialized :
    /\ rawrun[i].side # "none"
    /\ rawrun[i].rest
    /\ Changed(i)
    /\ now - rawrun[i].since > DEBOUNCE_DELAY
    /\ now - cand[i].since = DEBOUNCE_DELAY

\* C9 as stated: a call of updatePoint that does not change the accepted
\* state writes no relay output.
C9_AsStated ==
  \A i \in Initialized :
    (obs[i].call = "updatePoint" /\ Cur(i) = obs[i].from) => obs[i].writes = 0

\* C9 amended: updatePoint changes the level of a relay output only in a call
\* in which the accepted state changes, and writes none in a call that returns
\* early for the sampling interval.  The sketch of part_003 writes the relay
\* outputs only in a call in which the accepted state changes; the sketch of
\* railway_crossover_control.ino writes both of them in every call that takes
\* a sample, with the levels of currentState.
C9_RelayWrites ==
  \A i \in Initialized :
    obs[i].call = "updatePoint" =>
      /\ Cur(i) = obs[i].from => Levels(i) = obs[i].levels
      /\ obs[i].reads = 0 => obs[i].writes = 0
      /\ sketch = "points" => obs[i].writes = (IF Cur(i) # obs[i].from THEN 2 ELSE 0)
      /\ sketch = "ino" => obs[i].writes = (IF obs[i].reads = 1 THEN 2 ELSE 0)

\* a sampled call of the part_003 sketch that leaves a candidate pending and
\* writes nothing
C9_Witness ==
  \E i \in Initialized :
    /\ sketch = "points"
    /\ obs[i].call = "updatePoint"
    /\ obs[i].reads = 1
    /\ Inst(i) # Cur(i)
    /\ obs[i].writes = 0

\* C10: a change notification is emitted exactly once for each accepted state
\* change, once at initialization, and in no other call; what is reported is
\* the accepted state, so a candidate that is never accepted is never
\* reported.
C10_NotifyOncePerChange ==
  \A i \in Initialized :
    /\ obs[i].call = "initializePoint" => obs[i].notes = 1
    /\ obs[i].call = "updatePoint" =>
         obs[i].notes = (IF Cur(i) # obs[i].from THEN 1 ELSE 0)
    /\ Len(Log(i)) >= 1
    /\ Log(i)[Len(Log(i))].state = Cur(i)
    /\ \A k \in 1..(Len(Log(i)) - 1) : Log(i)[k].state # Log(i)[k + 1].state
    /\ Reported(i) = Cur(i)

\* the second accepted change of a run: three notifications, and a candidate
\* was pending in between without being reported
C10_Witness ==
  \E i \in Initialized :
    /\ Changed(i)
    /\ obs[i].notes = 1
    /\ Len(Log(i)) = 3

\* C11 as stated: every analogRead of updatePoint happens at least
\* SENSOR_SAMPLE_INTERVAL after the previous read of the same sensor, the read
\* of initializePoint included.
C11_AsStated ==
  \A i \in Initialized :
    (obs[i].call = "updatePoint" /\ obs[i].reads = 1) =>
      ~sampled[i].short

\* C11 amended: every analogRead of updatePoint happens at least
\* SENSOR_SAMPLE_INTERVAL after the previous read updatePoint made of the same
\* sensor, and a call that comes sooner reads nothing.  The read of
\* initializePoint does not count: initializePoint backdates lastSample by
\* SENSOR_SAMPLE_INTERVAL, so the first updatePoint after it always reads,
\* however soon it comes.
C11_SampleInterval ==
  \A i \in Initialized :
    obs[i].call = "updatePoint" =>
      /\ obs[i].reads <= 1
      /\ sampled[i].n >= 1
      /\ (obs[i].reads = 1 /\ sampled[i].n >= 2) => ~sampled[i].short
      /\ obs[i].reads = 1 => cand[i].last = now /\ LastSample(i) = now
      /\ obs[i].reads = 0 => now - cand[i].last < SENSOR_SAMPLE_INTERVAL

\* the first updatePoint reads the sensor less than SENSOR_SAMPLE_INTERVAL
\* after initializePoint did
C11_Witness ==
  \E i \in Initialized :
    /\ obs[i].call = "updatePoint"
    /\ obs[i].reads = 1
    /\ sampled[i].n = 1
    /\ sampled[i].short

\* the state entry i of the controller array is configured with
DefaultState(i) ==
  IF sketch = "ino" THEN pointControls[i].currentState
  ELSE pointControllers[i].currentState

\* C12: initializePoint takes one sample at once and, without waiting for the
\* sampling interval or the debounce time, sets currentState to
\* interpretState(first reading, configured state), sets the instantaneous
\* state equal to it, writes the relay outputs of that state and emits the
\* first notification; when setup() ends every controller's relays match its
\* accepted state.
C12_InitializeAtOnce ==
  /\ \A i \in Initialized :
       obs[i].call = "initializePoint" =>
         /\ obs[i].reads = 1
         /\ Cur(i) = interpretBody(Type(i), Threshold(i), Hysteresis(i), adc[i],
                                   DefaultState(i))
         /\ Inst(i) = Cur(i)
         /\ LastAnalog(i) = adc[i]
         /\ obs[i].writes = 4
         /\ Levels(i) = Mapping(Type(i), Cur(i))
         /\ obs[i].notes = 1
         /\ Len(Log(i)) = 1
         /\ Log(i)[1].state = Cur(i)
  /\ pending = {} => \A i \in followed : Levels(i) = Mapping(Type(i), Cur(i))

\* initializePoint ran at millis() = 0 and accepted a state other than the
\* configured one
C12_Witness ==
  \E i \in Initialized :
    /\ obs[i].call = "initializePoint"
    /\ now = 0
    /\ Cur(i) # DefaultState(i)
    /\ pending = {}

\* C13: updatePoint on one controller leaves the other controller alone: two
\* Y-branch controllers fed opposite levels through the same loop() calls
\* each have, after setup() and after every loop(), exactly the struct, the
\* relay levels and the notifications they have when run by themselves on
\* their own levels; and a controller run by itself never drives a relay pin
\* of another.
C13_Isolation ==
  \A i \in DOMAIN alone :
    /\ i \in Initialized =>
         /\ ctl[i] = alone[i].point
         /\ Levels(i) = <<alone[i].pin[Line1(i)], alone[i].pin[Line2(i)]>>
         /\ Log(i) = alone[i].serial
    /\ i \in pending => Levels(i) = <<NOT_DRIVEN, NOT_DRIVEN>> /\ ctl[i] = alone[i].point
    /\ \A p \in RelayPins \ {Line1(i), Line2(i)} : alone[i].pin[p] = NOT_DRIVEN

\* both junctions have been through a loop(): one has accepted a change and
\* switched its relays, the other has kept its state
C13_Witness ==
  /\ Cardinality(DOMAIN alone) = 2
  /\ pending = {}
  /\ \E i, j \in followed :
       /\ i # j
       /\ Changed(i)
       /\ obs[j].call = "updatePoint"
       /\ Cur(j) = obs[j].from
       /\ Levels(i) # Levels(j)

\* C14: within one loop(), updating the controllers in any order yields the
\* same controller structs, the same relay levels and, for each controller,
\* the same notifications as updating them in registration order.
C14_OrderIrrelevant ==
  \A r \in permuted :
    /\ r.ctl = ctl
    /\ r.pin = pin
    /\ \A i \in followed :
         SelectSeq(r.serial, LAMBDA m : m.label = ctl[i].label) = Log(i)

\* both controllers accepted a change in the same loop(): in the other order
\* the two notifications come out the other way round
C14_Witness ==
  /\ \A i \in followed : Changed(i)
  /\ \E r \in permuted : r.serial # serial

\* the relay outputs of controller i that are at TRACK_POWER_ON
Powered(i) == {p \in {Line1(i), Line2(i)} : pin[p] = TRACK_POWER_ON}

\* C15 as stated: with every digitalWrite a step of its own, from the first
\* write of setup() on a Y-branch controller never has both or neither of
\* its relay outputs at TRACK_POWER_ON.
C15_AsStated ==
  \A i \in followed :
    (Type(i) = POINT_Y_BRANCH /\ pin[Line1(i)] # NOT_DRIVEN) =>
      Cardinality(Powered(i)) = 1

\* C15 amended: with every digitalWrite a step of its own, a Y-branch
\* controller has exactly one relay output at TRACK_POWER_ON whenever no call
\* is between two of its writes, from the end of initializePoint on.  Between
\* writes: neither output is on in setup() from its safe-default writes until
\* initializePoint powers the accepted route, and between the two writes of
\* applyPointLogic when the route changes to Line 2 (Line 1 is de-powered
\* first); both outputs are on between the two writes of applyPointLogic when
\* the route changes to Line 1 (Line 1 is powered first).
C15_ExactlyOneBetweenCalls ==
  \A i \in followed :
    Type(i) = POINT_Y_BRANCH =>
      /\ (wq.writes = <<>> /\ i \in Initialized) =>
            /\ Cardinality(Powered(i)) = 1
            /\ Levels(i) = Mapping(Type(i), Cur(i))
      /\ Cardinality(Powered(i)) = 2 =>
            /\ wq.call = "loop"
            /\ wq.writes = << <<Line2(i), TRACK_POWER_OFF>> >>
            /\ Cur(i) = ROUTE_LINE1_TO_LINE3
      /\ Cardinality(Powered(i)) = 0 =>
            \/ i \in pending
            \/ wq.call = "setup" /\ wq.writes # <<>>
            \/ /\ wq.call = "loop"
               /\ wq.writes = << <<Line2(i), TRACK_POWER_ON>> >>
               /\ Cur(i) = ROUTE_LINE2_TO_LINE3

\* between the two writes of a change to Line 1: both relay outputs are on
C15_Witness ==
  \E i \in followed :
    /\ Type(i) = POINT_Y_BRANCH
    /\ Cardinality(Powered(i)) = 2
    /\ wq.call = "loop"

C17_AsStated == wide.same

\* C17 amended: with the timestamps held modulo the timer period and compared
\* by unsigned subtraction, every call of updatePoint takes the
\* sampling-interval and debounce branches it would take with timestamps that
\* do not overflow, across the overflow of millis() and in the first update
\* after an initializePoint that ran before millis() reached
\* SENSOR_SAMPLE_INTERVAL, provided consecutive calls of loop() are at most
\* one timer period minus DEBOUNCE_DELAY + SENSOR_SAMPLE_INTERVAL apart.  A
\* longer stall, though
\* shorter than the period, can make the elapsed time since lastSample or
\* lastChanged pass the period, and the call then skips a sample or a change
\* it would otherwise make.
C17_OverflowSafe ==
  /\ wide.near => wide.same
  /\ \A i \in Initialized :
       /\ LastSample(i) = millis(wide.lastSample)
       /\ LastChanged(i) = millis(wide.lastChanged)

\* a change accepted after the overflow on a candidate that appeared before it
C17_Witness ==
  \E i \in Initialized :
    /\ wide.near
    /\ Changed(i)
    /\ now >= ULONG_MODULUS
    /\ wide.lastChanged < ULONG_MODULUS
    /\ LastChanged(i) > millis(now)

\* ------------------------------------------------------------------------
\* The crossing controller
\* ------------------------------------------------------------------------

\* C18: after every refreshCrossingState call the crossing is active
\* whenever the west or the east debounced occupancy is true: it is activated
\* in the loop() iteration in which a sensor first reports occupied and is
\* not released while a sensor reports occupied.
C18_ActiveWhileOccupied ==
  /\ (sensors[WEST].occupied \/ sensors[EAST].occupied) => crossingActive
  /\ (refreshed.westOccupied \/ refreshed.eastOccupied) => crossingActive

\* the east sensor alone has just reported occupied and the crossing was
\* activated in the same call
C18_Witness ==
  /\ refreshed.n > 0
  /\ ~refreshed.wasActive
  /\ refreshed.eastOccupied /\ ~refreshed.westOccupied
  /\ sensors[EAST].occupied
  /\ crossingActive

\* C19: the crossing is released only in a refreshCrossingState call in which
\* both sensors are clear and either the far-side sensor has been seen
\* occupied since the activation or at least RELEASE_TIMEOUT_MS have passed
\* since the last call in which a sensor was occupied.
C19_ReleasedOnlyWhenDue ==
  (refreshed.wasActive /\ ~crossingActive) =>
    /\ ~refreshed.westOccupied /\ ~refreshed.eastOccupied
    /\ refreshed.farSeen \/ refreshed.quiet >= RELEASE_TIMEOUT_MS

\* a release by the timeout, the far-side sensor never seen
C19_Witness ==
  /\ refreshed.wasActive /\ ~crossingActive
  /\ ~refreshed.farSeen
  /\ refreshed.quiet >= RELEASE_TIMEOUT_MS

\* in the last call the crossing was active, both sensors were clear and the
\* release was due
ReleaseDue ==
  /\ refreshed.wasActive
  /\ ~refreshed.westOccupied /\ ~refreshed.eastOccupied
  /\ refreshed.farSeen \/ refreshed.quiet >= RELEASE_TIMEOUT_MS

\* C20: an active crossing whose two occupancy inputs stay clear is
\* eventually released, loop() being called again and again with advancing
\* time: in the first iteration with both clear if the far sensor was seen,
\* else in the first iteration RELEASE_TIMEOUT_MS or more after the last
\* occupancy.
C20_EventuallyReleased ==
  /\ [](ReleaseDue => ~crossingActive)
  /\ []<>(~crossingActive \/ sensors[WEST].occupied \/ sensors[EAST].occupied)

\* a train that backed out: the crossing released by the timeout in the
\* first iteration RELEASE_TIMEOUT_MS after the last occupancy
C20_Witness ==
  /\ ReleaseDue
  /\ ~refreshed.farSeen
  /\ refreshed.quiet >= RELEASE_TIMEOUT_MS
  /\ refreshed.quiet < RELEASE_TIMEOUT_MS + LongStep
  /\ ~crossingActive

\* C21: at the end of every loop() iteration exactly one lamp output is
\* active while the crossing is active, the left one iff leftLampOn, and
\* both lamp outputs are inactive while it is not.
C21_LampsFollowState ==
  (sketch = "crossing" /\ pending = {}) =>
    /\ crossingActive =>
          /\ pin[LIGHT_LEFT_PIN] = (IF leftLampOn THEN LIGHT_ACTIVE_STATE
                                                   ELSE LIGHT_INACTIVE_STATE)
          /\ pin[LIGHT_RIGHT_PIN] = (IF leftLampOn THEN LIGHT_INACTIVE_STATE
                                                    ELSE LIGHT_ACTIVE_STATE)
    /\ ~crossingActive =>
          /\ pin[LIGHT_LEFT_PIN] = LIGHT_INACTIVE_STATE
          /\ pin[LIGHT_RIGHT_PIN] = LIGHT_INACTIVE_STATE

\* the lamps have swapped: the right lamp alone is lit
C21_Witness ==
  /\ sketch = "crossing" /\ refreshed.n > 0
  /\ crossingActive /\ ~leftLampOn
  /\ pin[LIGHT_RIGHT_PIN] = LIGHT_ACTIVE_STATE
  /\ pin[LIGHT_LEFT_PIN] = LIGHT_INACTIVE_STATE

\* ------------------------------------------------------------------------
\* The one-point sketches
\* ------------------------------------------------------------------------

\* the last call made was loop() or resumeOperation(): controlTrackPower
\* has just run
AfterControlTrackPower == seen.call \in {"loop", "resumeOperation"}

\* C22: in "binary", after every controlTrackPower call the Line 1 relay is
\* TRACK_POWER_ON iff the points are for Line 1 and the Line 2 relay iff they
\* are for Line 2: exactly one approach is powered, never the one the points
\* are set against, and each blocked LED is HIGH iff its approach is
\* unpowered.
C22_PowerFollowsPoints ==
  (sketch = "binary" /\ AfterControlTrackPower) =>
    /\ globals.currentPointsPosition \in {POINTS_FOR_LINE1, POINTS_FOR_LINE2}
    /\ pin[RELAY_LINE1_RIGHT_TO_LEFT] =
         (IF globals.currentPointsPosition = POINTS_FOR_LINE1 THEN TRACK_POWER_ON
                                                              ELSE TRACK_POWER_OFF)
    /\ pin[RELAY_LINE2_LEFT_TO_RIGHT] =
         (IF globals.currentPointsPosition = POINTS_FOR_LINE2 THEN TRACK_POWER_ON
                                                              ELSE TRACK_POWER_OFF)
    /\ Cardinality({p \in {RELAY_LINE1_RIGHT_TO_LEFT, RELAY_LINE2_LEFT_TO_RIGHT} :
                      pin[p] = TRACK_POWER_ON}) = 1
    /\ pin[LED_LINE1_BLOCKED] =
         (IF pin[RELAY_LINE1_RIGHT_TO_LEFT] = TRACK_POWER_OFF THEN HIGH ELSE LOW)
    /\ pin[LED_LINE2_BLOCKED] =
         (IF pin[RELAY_LINE2_LEFT_TO_RIGHT] = TRACK_POWER_OFF THEN HIGH ELSE LOW)

\* the points have just been accepted for Line 2 and Line 1 was cut in the
\* same loop()
C22_Witness ==
  /\ sketch = "binary" /\ seen.call = "loop"
  /\ seen.from = POINTS_FOR_LINE1
  /\ globals.currentPointsPosition = POINTS_FOR_LINE2
  /\ pin[RELAY_LINE1_RIGHT_TO_LEFT] = TRACK_POWER_OFF
  /\ pin[LED_LINE1_BLOCKED] = HIGH

\* C23: in "binary" and "coacting" the accepted state changes only to a
\* reading that every loop() has read, unchanged, for more than
\* DEBOUNCE_DELAY ms (the run of equal readings counted from the reading of
\* setup() on).
C23_AsStated ==
  (sketch \in SingleSketches /\ seen.call = "loop" /\ seen.from # CurrentOf(globals)) =>
    /\ seen.reading = CurrentOf(globals)
    /\ now - seen.since > DEBOUNCE_DELAY

\* C24: after emergencyStop() both relay outputs stay at TRACK_POWER_OFF
\* through every loop() until resumeOperation() is called.
C24_AsStated ==
  (sketch \in SingleSketches /\ seen.stopped) =>
    /\ pin[RELAY_LINE1_RIGHT_TO_LEFT] = TRACK_POWER_OFF
    /\ pin[RELAY_LINE2_LEFT_TO_RIGHT] = TRACK_POWER_OFF

\* C25: in "binary" both relay outputs are at TRACK_POWER_ON from setup()
\* until the first controlTrackPower call, whatever the sensor reads.
C25_PoweredUntilFirstLoop ==
  (sketch = "binary" /\ pending = {} /\ ~seen.powered) =>
    /\ pin[RELAY_LINE1_RIGHT_TO_LEFT] = TRACK_POWER_ON
    /\ pin[RELAY_LINE2_LEFT_TO_RIGHT] = TRACK_POWER_ON

\* setup() has read the points set for Line 2, and the Line 1 approach is
\* powered all the same
C25_Witness ==
  /\ sketch = "binary" /\ seen.call = "setup" /\ ~seen.powered
  /\ globals.currentPointsPosition = POINTS_FOR_LINE2
  /\ pin[RELAY_LINE1_RIGHT_TO_LEFT] = TRACK_POWER_ON

\* C26: in "binary", from the end of setup() on, LED_POINTS_POSITION is
\* HIGH iff currentPointsPosition is POINTS_FOR_LINE2.
C26_AsStated ==
  (sketch = "binary" /\ pending = {}) =>
    (pin[LED_POINTS_POSITION] = HIGH <=> globals.currentPointsPosition = POINTS_FOR_LINE2)

\* C27 as stated: an updatePoint call made less than SENSOR_SAMPLE_INTERVAL
\* after the sensor was last read (by initializePoint or by updatePoint)
\* reads nothing and leaves the controller and the relay outputs unchanged.
C27_AsStated ==
  \A i \in Initialized :
    (/\ obs[i].call = "updatePoint"
     /\ \/ obs[i].reads = 0 /\ now - cand[i].last < SENSOR_SAMPLE_INTERVAL
        \/ obs[i].reads >= 1 /\ sampled[i].short) =>
      /\ obs[i].reads = 0
      /\ obs[i].kept

\* C27 amended: an updatePoint call made less than SENSOR_SAMPLE_INTERVAL
\* after the time stored in lastSample reads nothing, writes nothing, prints
\* nothing and leaves the controller struct (lastSample, lastAnalog,
\* instantaneousState, lastChanged, currentState, reportedState) and every
\* relay output unchanged.  lastSample is the time of the last read of
\* updatePoint; after initializePoint it is SENSOR_SAMPLE_INTERVAL before
\* the read, so the first updatePoint reads however soon it comes.
C27_EarlyCallKeepsAll ==
  \A i \in Initialized :
    obs[i].call = "updatePoint" =>
      /\ obs[i].early =>
            /\ obs[i].reads = 0
            /\ obs[i].writes = 0
            /\ obs[i].notes = 0
            /\ obs[i].kept
      /\ sampled[i].n = 1 /\ obs[i].reads = 0 =>
            now - cand[i].last < SENSOR_SAMPLE_INTERVAL

\* a call comes too early while the sensor level is one that a read would
\* have interpreted as a change of the instantaneous state
C27_Witness ==
  \E i \in Initialized :
    /\ obs[i].call = "updatePoint"
    /\ obs[i].early
    /\ obs[i].reads = 0
    /\ interpretBody(Type(i), Threshold(i), Hysteresis(i), adc[i], Cur(i)) # Inst(i)

\* the other of the two states
OtherState(st) == 1 - st

\* C28 as stated: with hysteresis 0 the result of interpretState does not
\* depend on priorState, for every raw value: the call with the other
\* priorState gives the same result.
C28_AsStated ==
  (probe.done /\ probe.hysteresis = 0) =>
    probe.result = interpretOf(probe.point, probe.threshold, probe.hysteresis,
                               probe.analogValue, OtherState(probe.priorState))

\* C28 amended: with hysteresis 0 interpretState gives the low state for a
\* raw value below the threshold and the high state for one above it,
\* whatever priorState is; a raw value equal to the threshold gives
\* priorState.
C28_ComparatorOffThreshold ==
  (probe.done /\ probe.hysteresis = 0) =>
    LET type == pointControllers[probe.point].type
    IN  /\ probe.analogValue < probe.threshold => probe.result = LowState(type)
        /\ probe.analogValue > probe.threshold => probe.result = HighState(type)
        /\ probe.analogValue = probe.threshold => probe.result = probe.priorState
        /\ probe.analogValue # probe.threshold =>
              probe.result = interpretOf(probe.point, probe.threshold, probe.hysteresis,
                                         probe.analogValue, OtherState(probe.priorState))

\* with hysteresis 0, a raw value just above the threshold read with the low
\* prior state gives the high state
C28_Witness ==
  /\ probe.done
  /\ probe.hysteresis = 0
  /\ probe.analogValue = probe.threshold + 1
  /\ probe.priorState = LowState(pointControllers[probe.point].type)
  /\ probe.result = HighState(pointControllers[probe.point].type)

\* the level at controller i's sensor is strictly beyond the bound of the
\* given side
RawBeyond(i, side) ==
  /\ i \in Initialized
  /\ IF side = "high" THEN adc[i] > upperBoundOf(Threshold(i), Hysteresis(i))
                      ELSE adc[i] < lowerBoundOf(Threshold(i), Hysteresis(i))

\* controller i has accepted the state of the given side and its relays
\* are at the levels of that state
Accepted(i, side) ==
  /\ i \in Initialized
  /\ Cur(i) = StateOfSide(Type(i), side)
  /\ Levels(i) = Mapping(Type(i), Cur(i))

\* C29: if from some time on the raw reading stays strictly beyond one
\* bound of the hysteresis band, and loop() keeps being called at advancing
\* times, then from some time on the accepted state is the state of that
\* side and the relays are at its levels, whatever was read before.
C29_Reconverges ==
  \A i \in ForeverPoints : \A side \in {"low", "high"} :
    <>[]RawBeyond(i, side) => <>[]Accepted(i, side)

\* the level at the sensor is beyond the bound opposite to the accepted
\* state, the controller holds the state of that side as its candidate, and
\* millis() has run past its overflow since the candidate was first read
C29_Witness ==
  \E i \in Initialized : \E side \in {"low", "high"} :
    /\ RawBeyond(i, side)
    /\ Cur(i) # StateOfSide(Type(i), side)
    /\ Inst(i) = StateOfSide(Type(i), side)
    /\ LastChanged(i) > now

\* C30: the lamps swap only in a loop() whose updateLights call comes at
\* least FLASH_INTERVAL_MS after the previous swap, or after the activation
\* when there was no swap since; the loop() that activates the crossing ends
\* with the left lamp on and the right lamp off; and when loop() is called
\* every millisecond each swap comes exactly FLASH_INTERVAL_MS after the
\* previous swap or the activation.
C30_FlashTiming ==
  /\ flash.swapped =>
        /\ crossingActive /\ refreshed.wasActive
        /\ flash.gap >= FLASH_INTERVAL_MS
  /\ (sketch = "crossing" /\ crossingActive /\ ~refreshed.wasActive) =>
        /\ Lamps(pin) = <<LIGHT_ACTIVE_STATE, LIGHT_INACTIVE_STATE>>
        /\ ~flash.swapped
  /\ (flash.swapped /\ flash.regular) => flash.gap = FLASH_INTERVAL_MS

\* the second swap of the second activation, with loop() called every
\* millisecond since the first
C30_Witness ==
  /\ flash.swapped
  /\ flash.regular
  /\ flash.runs = 2
  /\ flash.swaps = 2
  /\ flash.gap = FLASH_INTERVAL_MS

\* C31: updateSensor reads the sensor at most once in a call and only
\* SENSOR_SAMPLE_INTERVAL_MS or more after its previous read; it changes
\* occupied only to the raw occupancy that every sample has shown for
\* SENSOR_DEBOUNCE_MS or more; a sample whose raw occupancy differs from the
\* one before restarts the debounce time; and a call that comes less than
\* SENSOR_SAMPLE_INTERVAL_MS after the previous read reads nothing, leaves
\* the sensor record as it was and returns the occupied value it holds.
C31_SampledAndDebounced ==
  \A i \in {WEST, EAST} :
    sampling[i].calls > 0 =>
      /\ sampling[i].read <= 1
      /\ sampling[i].read = 1 => sampling[i].waited >= SENSOR_SAMPLE_INTERVAL_MS
      /\ sampling[i].changed =>
            /\ sampling[i].read = 1
            /\ sensors[i].occupied = sampling[i].raw
            /\ sampling[i].held >= SENSOR_DEBOUNCE_MS
      /\ sampling[i].flipped =>
            /\ sensors[i].lastDebounceChange = now
            /\ sensors[i].rawState = sampling[i].raw
            /\ ~sampling[i].changed
      /\ sampling[i].waited < SENSOR_SAMPLE_INTERVAL_MS =>
            /\ sampling[i].read = 0
            /\ sampling[i].kept
      /\ sampling[i].returned = sensors[i].occupied

\* a block is reported clear again: the samples have shown no current for
\* SENSOR_DEBOUNCE_MS
C31_Witness ==
  \E i \in {WEST, EAST} :
    /\ sampling[i].changed
    /\ sampling[i].read = 1
    /\ ~sampling[i].raw
    /\ ~sensors[i].occupied
    /\ sampling[i].held >= SENSOR_DEBOUNCE_MS

\* C32: when DriftSamples samples in a row have read one and the same
\* level, with no train current, and that level differs from the baseline
\* the first of them met, the baseline has moved toward the level.
C32_AsStated ==
  \A i \in {WEST, EAST} :
    (/\ sampling[i].steady = DriftSamples
     /\ sampling[i].level # sampling[i].from) =>
      abs(sensors[i].baseline - sampling[i].level) < abs(sampling[i].from - sampling[i].level)

\* C33: in the binary-points and single coacting sketches, every loop() call
\* that changes the accepted state with no serial input pending prints the
\* status line exactly once, and no call prints it again while the state
\* stays the same.
C33_AsStated ==
  (sketch \in SingleSketches /\ seen.call = "loop") =>
    /\ (seen.from # CurrentOf(globals) /\ seen.available = 0) => seen.status = 1
    /\ ~seen.again

\* the PointControl struct of the sketch that applies the relay logic on every
\* sampled tick, holding what a PointController struct of the other holds
ToIno(p) ==
  [ label |-> p.label, type |-> p.type, sensorPin |-> p.sensor.pin,
    relayLine1 |-> p.relays.line1, relayLine2 |-> p.relays.line2,
    analogThreshold |-> p.sensor.threshold, analogHysteresis |-> p.sensor.hysteresis,
    currentState |-> p.currentState, lastReading |-> p.instantaneousState,
    lastDebounceTime |-> p.sensor.lastChanged, lastSampleTime |-> p.sensor.lastSample,
    lastAnalogValue |-> p.sensor.lastAnalog, lastStatus |-> p.reportedState ]

\* that sketch's for loop of loop() from entry i on, all with the same now
RECURSIVE loopInoFrom(_, _, _, _)
loopInoFrom(i, hw, t, v) ==
  IF i > POINT_COUNT THEN hw
  ELSE IF i \notin followed THEN loopInoFrom(i + 1, hw, t, v)
  ELSE
    LET r == updatePointIno(hw.ctl[i], [pin |-> hw.pin, serial |-> hw.serial,
                                        writes |-> <<>>, reads |-> 0], t, v[i])
    IN  loopInoFrom(i + 1, [ctl |-> [hw.ctl EXCEPT ![i] = r.point], pin |-> r.io.pin,
                            serial |-> r.io.serial], t, v)

\* that sketch making the same call from the same structs, relay levels and
\* serial output: one iteration of setup()'s for loop while a controller is
\* still to be initialised, loop() afterwards; at the time t, with the levels v
InoBeside(t, v) ==
  LET hw == [ctl |-> [i \in followed |-> ToIno(ctl[i])], pin |-> pin, serial |-> serial]
  IN  IF pending # {}
        THEN LET i == Min(pending)
                 io == [pin |-> pin, serial |-> serial, writes |-> <<>>, reads |-> 0]
                 io1 == digitalWrite(digitalWrite(io, hw.ctl[i].relayLine1, TRACK_POWER_OFF),
                                     hw.ctl[i].relayLine2, TRACK_POWER_OFF)
                 r == initializePointIno(hw.ctl[i], io1, t, v[i])
             IN  [ctl |-> [hw.ctl EXCEPT ![i] = r.point], pin |-> r.io.pin,
                  serial |-> r.io.serial]
        ELSE loopInoFrom(1, hw, t, v)

\* C34: the two multi-point sketches are observationally equivalent: started
\* from their configured structs and given the same timestamps and sensor
\* readings, after setup() and after each loop() they have the same
\* currentState, the same relay output levels and the same sequence of
\* notifications for every controller (the sketch that applies the relay
\* logic only on an accepted change is run, and every call of it is matched
\* by the same call of the sketch that applies it on every sampled tick).
C34_SketchesEquivalent ==
  /\ sketch = "points" => \A i \in followed : ToIno(ctl[i]) = pointControls[i]
  /\ [][sketch = "points" =>
          \E r \in {InoBeside(now', adc')} :
            /\ \A i \in followed : ToIno(ctl'[i]) = r.ctl[i]
            /\ \A i \in followed : ctl'[i].currentState = r.ctl[i].currentState
            /\ pin' = r.pin
            /\ serial' = r.serial]_vars

\* a sampled tick of the "points" sketch that accepted nothing (the other
\* sketch applies the relay logic there, this one does not) after a call
\* that accepted a change and reported it
C34_Witness ==
  /\ sketch = "points"
  /\ \E i \in Initialized :
       /\ obs[i].call = "updatePoint" /\ ~obs[i].early
       /\ Cur(i) = obs[i].from
       /\ Cur(i) # DefaultState(i)
       /\ Len(serial) >= 2

\* controller i is in its first stay: its first reading lay inside
\* [lowerBound, upperBound] and no change has been accepted since
\* (initializePoint stores the first reading in lastAnalog, updatePoint
\* overwrites it only when it accepts a change, and a change is accepted only
\* on a reading outside the band)
FirstReadingInBand(i) == i \in Initialized /\ Side(i, LastAnalog(i)) = "mid"

\* C35: if the first reading taken by initializePoint lies inside
\* [lowerBound, upperBound], the controller starts in its configured default
\* state, a coacting controller CROSSOVER_ACTIVE with both approaches
\* unpowered and a Y-branch controller ROUTE_LINE1_TO_LINE3 with Line 1
\* powered, and it leaves that state only in a call that reads a level
\* strictly above upperBound at least DEBOUNCE_DELAY after the first sample
\* of an unbroken run of samples above it.
C35_StartsInDefault ==
  /\ [](\A i \in followed :
         FirstReadingInBand(i) =>
           /\ Cur(i) = DefaultState(i)
           /\ Cur(i) = IF Type(i) = POINT_COACTING THEN CROSSOVER_ACTIVE
                                                  ELSE ROUTE_LINE1_TO_LINE3
           /\ Levels(i) = IF Type(i) = POINT_COACTING
                             THEN <<TRACK_POWER_OFF, TRACK_POWER_OFF>>
                             ELSE <<TRACK_POWER_ON, TRACK_POWER_OFF>>)
  /\ [][\A i \in followed :
          (FirstReadingInBand(i) /\ ctl'[i].currentState # Cur(i)) =>
            /\ adc'[i] > upperBoundOf(Threshold(i), Hysteresis(i))
            /\ cand'[i].state = HighState(Type(i))
            /\ cand'[i].n >= 2
            /\ now' - cand'[i].since >= DEBOUNCE_DELAY]_vars

\* a controller whose first reading lay inside the band, still in its default
\* state in a sampled call that reads above upperBound, the run of such
\* samples being one sampling interval short of DEBOUNCE_DELAY
C35_Witness ==
  \E i \in Initialized :
    /\ FirstReadingInBand(i)
    /\ obs[i].call = "updatePoint" /\ obs[i].reads = 1
    /\ Cur(i) = DefaultState(i)
    /\ adc[i] > upperBoundOf(Threshold(i), Hysteresis(i))
    /\ cand[i].state = HighState(Type(i))
    /\ now - cand[i].since = DEBOUNCE_DELAY - SENSOR_SAMPLE_INTERVAL

\* C36: at the end of every updatePoint call that took a sample, if the
\* instantaneous state differs from currentState then less than
\* DEBOUNCE_DELAY ms have elapsed since lastChanged (a candidate stable for
\* DEBOUNCE_DELAY or longer is never left pending), and after an accepted
\* change the instantaneous state equals currentState.
C36_NoStableCandidatePending ==
  \A i \in Initialized :
    (obs[i].call = "updatePoint" /\ obs[i].reads = 1) =>
      /\ Inst(i) # Cur(i) =>
            /\ now - LastChanged(i) < DEBOUNCE_DELAY
            /\ USub(now, LastChanged(i)) < DEBOUNCE_DELAY
      /\ Cur(i) # obs[i].from => Inst(i) = Cur(i)

\* a sampled call that leaves a candidate pending which has been stable for
\* all but 5 ms of DEBOUNCE_DELAY
C36_Witness ==
  \E i \in Initialized :
    /\ obs[i].call = "updatePoint" /\ obs[i].reads = 1
    /\ Inst(i) # Cur(i)
    /\ now - LastChanged(i) = DEBOUNCE_DELAY - 5

\* C37: if both occupancy inputs are occupied in the refreshCrossingState
\* call that activates the crossing, it is activated with direction WEST and
\* the far sensor marked as seen; a crossing active with direction WEST and
\* the far sensor seen stays so in every call in which a sensor is occupied
\* and is released in the first call in which both sensors are clear,
\* whatever the time since the last occupancy.
C37_BothAtActivation ==
  /\ []((/\ sketch = "crossing" /\ refreshed.n > 0 /\ ~refreshed.wasActive
          /\ refreshed.westOccupied /\ refreshed.eastOccupied) =>
           /\ crossingActive
           /\ activeDirection = APPROACH_FROM_WEST
           /\ farSensorSeen)
  /\ [][(/\ crossingActive /\ activeDirection = APPROACH_FROM_WEST /\ farSensorSeen
          /\ refreshed'.n > refreshed.n) =>
           IF refreshed'.westOccupied \/ refreshed'.eastOccupied
             THEN /\ crossingActive'
                  /\ activeDirection' = APPROACH_FROM_WEST
                  /\ farSensorSeen'
             ELSE ~crossingActive']_vars

\* a crossing activated by a call in which both sensors were occupied
C37_Witness ==
  /\ sketch = "crossing" /\ refreshed.n > 0 /\ ~refreshed.wasActive
  /\ refreshed.westOccupied /\ refreshed.eastOccupied
  /\ crossingActive /\ farSensorSeen
  /\ activeDirection = APPROACH_FROM_WEST

\* C38: in the multi-point sketches, after initializePoint and after every
\* completed updatePoint call the last-reported state equals currentState
\* (the -1 marker that forces a log is never visible between calls), and
\* currentState is always one of the two state values of the controller's
\* kind.
C38_ReportedIsCurrent ==
  sketch \in Sketches =>
    /\ \A i \in Initialized :
         /\ Reported(i) = Cur(i)
         /\ Reported(i) # -1
    /\ \A i \in followed :
         Cur(i) \in IF Type(i) = POINT_COACTING
                     THEN {CROSSOVER_ACTIVE, CROSSOVER_INACTIVE}
                     ELSE {ROUTE_LINE1_TO_LINE3, ROUTE_LINE2_TO_LINE3}

\* an updatePoint call that accepted a change, set the marker and reported
\* the new state
C38_Witness ==
  /\ sketch = "points"
  /\ \E i \in Initialized :
       /\ Changed(i) /\ obs[i].notes = 1
       /\ Reported(i) = Cur(i)

\* C39: in the crossing controller, between loop() iterations crossingActive
\* is true iff activeDirection is not APPROACH_NONE, and farSensorSeen is true
\* only while crossingActive is true.
C39_DirectionIffActive ==
  sketch = "crossing" =>
    /\ crossingActive <=> activeDirection # APPROACH_NONE
    /\ activeDirection \in {APPROACH_NONE, APPROACH_FROM_WEST, APPROACH_FROM_EAST}
    /\ farSensorSeen => crossingActive

\* a crossing released after the far-side sensor had been seen: the flag and
\* the direction are cleared with it
C39_Witness ==
  /\ sketch = "crossing"
  /\ refreshed.wasActive /\ refreshed.farSeen
  /\ ~crossingActive
  /\ activeDirection = APPROACH_NONE
  /\ ~farSensorSeen

====
